---- MODULE Spec2Model ----
(***************************************************************************)
(* The diagnostic scan engine of src/src/main.cpp (performDiagnosticScan   *)
(* and the functions it calls) as a state machine.  The program is         *)
(* single-threaded: pc is the position of the one thread inside the scan,  *)
(* now is the value millis() returns, and the bus (what twai_receive and   *)
(* twai_transmit return) is the environment.                               *)
(***************************************************************************)
EXTENDS Integers, Sequences, FiniteSets, TLC

(***************************************************************************)
(* Program constants                                                       *)
(***************************************************************************)
TOTAL_SCAN_TIMEOUT_MS == 45000
BAUD_DETECT_TIMEOUT_MS == 2000
TRAFFIC_LISTEN_TIMEOUT_MS == 5000
ECU_PROBE_TIMEOUT_MS == 15000

\* timeout of twai_receive in autoDetectCANBaudRate
BAUD_RX_TIMEOUT_MS == 100
\* frames that make a candidate "detected"
BAUD_FRAMES_NEEDED == 3
\* timeout of twai_receive in listenForCANTraffic
SNIFF_RX_TIMEOUT_MS == 50
\* probeOBD2ECUsWithTimeout: transmit timeout, per-ECU wait, receive timeout, pause
PROBE_TX_TIMEOUT_MS == 100
ECU_WAIT_MS == 800
PROBE_RX_TIMEOUT_MS == 50
PROBE_PAUSE_MS == 50
\* scanAllDTCs: transmit timeout, wait, receive timeout, pause
DTC_TX_TIMEOUT_MS == 100
DTC_WAIT_MS == 1000
DTC_RX_TIMEOUT_MS == 50
DTC_PAUSE_MS == 100
\* delay() after the "No vehicle detected" and "Scan timeout" messages
NO_VEHICLE_DELAY_MS == 3000
SCAN_TIMEOUT_DELAY_MS == 2000
\* the standard functional-response range 0x7E8..0x7EF and the offset 8
RESP_LO == 2024
RESP_HI == 2031
RESP_OFFSET == 8

baudRates == <<500000, 250000, 125000, 1000000>>
numRates == Len(baudRates)

\* 0x7E0 .. 0x7EF
OBD2_ADDRESSES ==
  <<2016, 2017, 2018, 2019, 2020, 2021, 2022, 2023,
    2024, 2025, 2026, 2027, 2028, 2029, 2030, 2031>>
NUM_ECUS == Len(OBD2_ADDRESSES)

(***************************************************************************)
(* Bounds of the environment                                               *)
(***************************************************************************)
\* resolution of the arrival time of a frame inside a blocking receive
TickMs == 50
\* a call without a timeout (display update) may hold the thread this long
StallMs == 46000
\* such stalls per scan
MaxStalls == 1
\* receive calls per scan that time out singly; otherwise the bus either
\* delivers a frame or stays silent for the rest of the window
MaxIdlePolls == 1
\* frames the bus delivers per scan after the detection phase
MaxRxFrames == 3
\* failed twai_transmit calls per scan, in one run of consecutive calls
MaxTxFail == 1
\* failed reconfigurations per scan
MaxReinitFail == 1
\* scans per run, and the time grid on which the next scan starts
MaxScans == 1
\* events of the bus and the peripherals in a scan that is replayed
MaxReplayEvents == 2
SessionGapMs == 200000

\* identifiers the bus may deliver: 0x7E8 (in the response range) and 0x7F0
\* (= 0x7E8 + 8, outside the range)
FrameIds == {2024, 2032}

\* payloads the bus may deliver in answer to a mode-03 request
Payloads ==
  { <<5, 67, 1, 35, 0, 0, 0, 0>>,
    <<4, 67, 67, 16, 129>>,
    <<2, 67>> }

\* payload of frames whose data the code only logs
NoData == <<>>

VARIABLES
  pc,               \* position of the thread
  now,              \* millis()
  scans,            \* scans started so far
  ctrl,             \* TWAI driver: [st, rate]
  detectedCodes,    \* std::vector<FaultCode>
  activeECUs,       \* std::vector<uint16_t>
  vehicleDetected,
  scanStartTime,
  startTime,        \* startTime of the running phase function
  ecuStart,         \* ecuStart (discovery) / start (DTC) of the inner wait
  baudIdx,          \* i of autoDetectCANBaudRate, 0-based
  frameCount,       \* frameCount of autoDetectCANBaudRate / listenForCANTraffic
  uniqueIDs,        \* uniqueIDs of listenForCANTraffic
  detectedBaudRate,
  probeIdx,         \* i of probeOBD2ECUsWithTimeout, 0-based
  dtcIdx,           \* position of the range-for of scanAllDTCs, 1-based
  response,         \* identifier of the frame the last twai_receive returned, 0 = none
  rxData,           \* response.data of the frame handed to the test of line 1210
  script,           \* the bus has so far behaved as the vehicle of the end-to-end example
  mode,             \* "plain", or "replay": the second scan meets the bus behaviour of the first
  busLog,           \* replay: what the bus and the peripherals did in each step of the first scan
  replayPos,        \* replay: position of the second scan in busLog
  firstReport,      \* replay: the report of the first scan
  status,           \* how performDiagnosticScan returned
  progress,         \* percent values handed to updateScanProgress, in order
  txLog,            \* twai_transmit calls of the scan: [id, mode, ok]
  phases,           \* phase functions called in this scan, in order
  late,             \* phase boundaries at which elapsed > TOTAL_SCAN_TIMEOUT_MS
  tried,            \* bit rates handed to reinitializeCAN in this scan, in order
  reinitFailed,     \* candidates (indices) whose reconfiguration failed
  rxUnder,          \* cur: frames received since the last successful reconfiguration;
                    \* stray: a window of this scan expired after receiving frames
  env,              \* budget counters of the environment
  currentState,     \* KioskState
  transactionId,    \* << >> is the empty String
  sessionStartTime,
  stateStartTime,
  lastPaymentCheck,
  lastPress,        \* static lastPress of handleButtonPress
  qrDisplayed,      \* static displayed of displayQRCode
  qrDrawn,          \* the transaction id encoded by the QR code drawn last
  kpc,              \* position of loop(): "button", "update", "timeout"
  sessions,         \* sessions the server has created so far
  presses,          \* button presses so far
  lastEvent         \* what the last handler met: a "press", results "cleared", the answer "paid" or
                    \* "unpaid" to a payment poll, or "none"

vars ==
  << pc, now, scans, ctrl, detectedCodes, activeECUs, vehicleDetected,
     scanStartTime, startTime, ecuStart, baudIdx, frameCount, uniqueIDs,
     detectedBaudRate, probeIdx, dtcIdx, response, status, progress, txLog,
     phases, late, tried, reinitFailed, rxUnder, env, rxData, script,
     mode, busLog, replayPos, firstReport,
     currentState, transactionId, sessionStartTime, stateStartTime,
     lastPaymentCheck, lastPress, qrDisplayed, qrDrawn, kpc, sessions,
     presses, lastEvent >>

kioskVars ==
  << currentState, transactionId, sessionStartTime, stateStartTime,
     lastPaymentCheck, lastPress, qrDisplayed, qrDrawn, kpc, sessions,
     presses, lastEvent >>

\* The specifications of the scan alone call performDiagnosticScan directly
\* and do not follow loop(): there the variables of the kiosk keep these values.
KioskOff ==
  /\ currentState = "untracked"
  /\ transactionId = << >>
  /\ sessionStartTime = 0
  /\ stateStartTime = 0
  /\ lastPaymentCheck = 0
  /\ lastPress = 0
  /\ qrDisplayed = FALSE
  /\ qrDrawn = << >>
  /\ kpc = "off"
  /\ sessions = 0
  /\ presses = 0
  /\ lastEvent = "none"

\* line 295: performDiagnosticScan is called from case SCANNING of updateKioskState
ScanCalled == mode = "kiosk" => (kpc = "update" /\ currentState = "SCANNING")

(***************************************************************************)
(* Helpers                                                                 *)
(***************************************************************************)
\* The bus behaviours explored are of two kinds, chosen per scan (env.focus):
\* "detect": the detection phase is disturbed (failed reconfigurations, sparse
\*   or late frames, a stall before detection) and the bus is silent afterwards;
\* "scan": the first candidate sees its frames at once, and the sniff, the
\*   discovery and the DTC phase are disturbed (frames, failed transmits, stalls).
Focuses == {"detect", "scan"}
EnvZero(f) == [focus |-> f, stalls |-> 0, idle |-> 0, rx |-> 0, txFail |-> 0]
Rich(f) == env.focus = f

\* durations a call without timeout (a display update) may take
StallChoices(f) == IF Rich(f) /\ env.stalls < MaxStalls THEN {0, StallMs} ELSE {0}

\* arrival delays of a frame inside a receive with the given timeout
RxDelays(timeout) == {0} \cup {d \in {timeout - TickMs} : d > 0 /\ d < timeout}

\* the time at which `while (millis() - s < win) receive(to)` exits when every
\* receive from time t on times out
\* a clock that stands still while the receives time out
PollOut_ClockStuck(t, s, win, to) == t

PollOut(t, s, win, to) ==
  IF t - s < win
  THEN t + (to * ((((win - (t - s)) + to) - 1) \div to))   \* polls still begun: ceiling
  ELSE t

Elapsed(t) == t - scanStartTime

\* lines 1113-1114
Qualifies_Any(id, ecuAddr) == TRUE
Qualifies(id, ecuAddr) ==
  \/ id = ecuAddr + RESP_OFFSET
  \/ (id >= RESP_LO /\ id <= RESP_HI)

(***************************************************************************)
(* reinitializeCAN: the driver after the call and the value returned.      *)
(* installOk / startOk are what twai_driver_install / twai_start return.   *)
(***************************************************************************)
Timings == {1000000, 500000, 250000, 125000}

\* a reconfiguration without lines 931-932: twai_driver_install refuses while a
\* driver is installed
reinitializeCAN_KeepsDriver(c, baudRate, installOk, startOk) ==
  IF c.st # "uninstalled" THEN [ctrl |-> c, ok |-> FALSE]
  ELSE IF baudRate \notin Timings \/ ~installOk THEN [ctrl |-> c, ok |-> FALSE]
  ELSE IF ~startOk THEN [ctrl |-> [st |-> "stopped", rate |-> baudRate], ok |-> FALSE]
  ELSE [ctrl |-> [st |-> "running", rate |-> baudRate], ok |-> TRUE]

\* a reconfiguration that does not look at what twai_start returned
reinitializeCAN_IgnoresStart(c, baudRate, installOk, startOk) ==
  IF baudRate \notin Timings \/ ~installOk
  THEN [ctrl |-> [st |-> "uninstalled", rate |-> 0], ok |-> FALSE]
  ELSE IF ~startOk THEN [ctrl |-> [st |-> "stopped", rate |-> baudRate], ok |-> TRUE]
  ELSE [ctrl |-> [st |-> "running", rate |-> baudRate], ok |-> TRUE]

reinitializeCAN(c, baudRate, installOk, startOk) ==
  LET stopped == [st |-> "uninstalled", rate |-> 0]   \* twai_stop; twai_driver_uninstall
  IN IF baudRate \notin Timings THEN [ctrl |-> stopped, ok |-> FALSE]
     ELSE IF ~installOk THEN [ctrl |-> stopped, ok |-> FALSE]
     ELSE IF ~startOk THEN [ctrl |-> [st |-> "stopped", rate |-> baudRate], ok |-> FALSE]
     ELSE [ctrl |-> [st |-> "running", rate |-> baudRate], ok |-> TRUE]


(***************************************************************************)
(* Two scans against the same bus (mode = "replay"). The first scan logs,  *)
(* step by step, what the environment did: the time the step took, the     *)
(* stalls, timeouts, frames and failed transmits it consumed, the frame    *)
(* received, and the state the driver calls left. The second scan may only *)
(* take steps in which the environment does the same again.                *)
(***************************************************************************)
Report ==
  [ ecus |-> activeECUs, codes |-> detectedCodes,
    detected |-> vehicleDetected, status |-> status ]
NoReport == [ ecus |-> <<>>, codes |-> <<>>, detected |-> FALSE, status |-> "none" ]

\* The bus behaviours replayed: a stall, receive timeout, late or diagnostic
\* frame, failed transmit or failed reconfiguration of the first scan happens
\* within the first two polls of a wait, and in discovery within the first
\* addresses.
Disturbed ==
  \/ env'.stalls # env.stalls
  \/ env'.idle # env.idle
  \/ env'.rx # env.rx
  \/ env'.txFail # env.txFail
  \/ reinitFailed' # reinitFailed
  \/ (pc = "baud_poll" /\ rxUnder'.cur # rxUnder.cur /\ now' # now)
  \/ (pc = "baud_poll" /\ rxUnder'.cur = rxUnder.cur /\ rxUnder.cur > 0)

BusEvent ==
  [ at |-> pc,
    dt |-> now' - now,
    focus |-> env'.focus,
    stalls |-> env'.stalls - env.stalls,
    idle |-> env'.idle - env.idle,
    rx |-> env'.rx - env.rx,
    txFail |-> env'.txFail - env.txFail,
    frames |-> rxUnder'.cur,
    id |-> IF env'.rx # env.rx THEN response' ELSE 0,
    data |-> rxData',
    driver |-> IF pc = "baud_try" THEN ctrl' ELSE << >>,
    disturbed |-> Disturbed ]

\* the first scan of a replay meets at most MaxReplayEvents such events, early
ReplayBus ==
  Disturbed =>
    /\ Cardinality({k \in 1..Len(busLog) : busLog[k].disturbed}) < MaxReplayEvents
    /\ pc = "baud_poll" => now - startTime <= BAUD_RX_TIMEOUT_MS
    /\ pc = "sniff_poll" => now - startTime <= SNIFF_RX_TIMEOUT_MS
    /\ pc = "probe_loop" => probeIdx <= 4
    /\ pc = "probe_wait" => (probeIdx <= 1 /\ now - ecuStart <= PROBE_RX_TIMEOUT_MS)
    /\ pc = "dtc_wait" => now - ecuStart <= DTC_RX_TIMEOUT_MS

\* scans that may be started: a replay is a run of two scans; termination
\* (mode = "live") and the kiosk loop (mode = "kiosk") are followed through one scan
ScanLimit == IF mode = "replay" THEN 2 ELSE IF mode \in {"live", "kiosk"} THEN 1 ELSE MaxScans

\* a step of performDiagnosticScan
Recorded ==
  /\ mode' = mode
  /\ firstReport' = firstReport
  /\ IF mode # "replay" THEN UNCHANGED << busLog, replayPos >>
     ELSE IF scans' = 1
     THEN /\ ReplayBus
          /\ busLog' = Append(busLog, BusEvent)
          /\ replayPos' = replayPos
     ELSE /\ replayPos <= Len(busLog)
          /\ BusEvent = busLog[replayPos]
          /\ replayPos' = replayPos + 1
          /\ busLog' = busLog

\* the scan has returned and its results are cleared
Remembered ==
  /\ mode' = mode
  /\ busLog' = busLog
  /\ IF mode # "replay" THEN UNCHANGED << replayPos, firstReport >>
     ELSE /\ firstReport' = Report
          /\ replayPos' = 1

(***************************************************************************)
(* State after setup(): initializeCAN has installed and started the driver *)
(* at 500 kbit/s, or failed at either step.                                *)
(***************************************************************************)
Init ==
  /\ pc = "idle"
  /\ now = 0
  /\ scans = 0
  /\ ctrl \in { [st |-> "running", rate |-> 500000],
                [st |-> "stopped", rate |-> 500000],
                [st |-> "uninstalled", rate |-> 0] }
  /\ detectedCodes = <<>>
  /\ activeECUs = <<>>
  /\ vehicleDetected = FALSE
  /\ scanStartTime = 0
  /\ startTime = 0
  /\ ecuStart = 0
  /\ baudIdx = 0
  /\ frameCount = 0
  /\ uniqueIDs = <<>>
  /\ detectedBaudRate = 0
  /\ probeIdx = 0
  /\ dtcIdx = 0
  /\ response = 0
  /\ status = "none"
  /\ progress = <<>>
  /\ txLog = <<>>
  /\ phases = <<>>
  /\ late = {}
  /\ tried = <<>>
  /\ reinitFailed = {}
  /\ rxUnder = [cur |-> 0, stray |-> FALSE]
  /\ env \in {EnvZero(f) : f \in Focuses}
  /\ rxData = NoData
  /\ script = TRUE
  /\ mode = "plain"
  /\ busLog = <<>>
  /\ replayPos = 0
  /\ firstReport = NoReport
  /\ KioskOff

\* The vehicle of the end-to-end example: 3 frames under 500000, the probe of
\* 0x7E0 answered from 0x7E8 and no other frame during discovery, the mode-03
\* request answered from 0x7E8 with ExamplePayload; no call fails or stalls.
ExampleEcu == RESP_LO
ExamplePayload == << 5, 67, 1, 35, 0, 0, 0, 0 >>
Undisturbed ==
  /\ env'.stalls = env.stalls
  /\ env'.txFail = env.txFail
  /\ reinitFailed' = reinitFailed

Stalled(e, d) == [e EXCEPT !.stalls = @ + (IF d > 0 THEN 1 ELSE 0)]

(***************************************************************************)
(* performDiagnosticScan, entry: lines 751-763, and the entry of           *)
(* autoDetectCANBaudRate                                                   *)
(***************************************************************************)
StartScan ==
  /\ pc = "idle"
  /\ scans < ScanLimit
  /\ ScanCalled
  /\ \E d \in StallChoices("detect") :
       /\ now' = now + d
       /\ env' = Stalled(env, d)
  /\ scans' = scans + 1
  /\ scanStartTime' = now
  /\ detectedCodes' = <<>>
  /\ activeECUs' = <<>>
  /\ vehicleDetected' = FALSE
  /\ progress' = <<0>>
  /\ status' = "running"
  /\ phases' = <<"baud">>
  /\ baudIdx' = 0
  /\ detectedBaudRate' = 0
  /\ pc' = "baud_try"
  /\ UNCHANGED << ctrl, startTime, ecuStart, frameCount, uniqueIDs, probeIdx,
                  dtcIdx, response, txLog, late, tried, reinitFailed, rxUnder >>
  /\ UNCHANGED rxData
  /\ script' = Undisturbed
  /\ UNCHANGED kioskVars
  /\ Recorded

(***************************************************************************)
(* autoDetectCANBaudRate                                                   *)
(***************************************************************************)
\* line 903: i++
NextCandidate_Abort(i) == numRates
NextCandidate(i) == i + 1

\* line 910: int frameCount = 0, declared inside the loop
WindowFrameCount_Carried(fc) == fc
WindowFrameCount(fc) == 0

\* line 764: detectedBaudRate == 0
NoActivity_WrongSentinel(rate) == rate = -1
NoActivity(rate) == rate = 0

ReinitOutcomes ==
  IF Rich("detect") /\ Cardinality(reinitFailed) < MaxReinitFail
  THEN { <<TRUE, TRUE>>, <<TRUE, FALSE>>, <<FALSE, TRUE>> }
  ELSE { <<TRUE, TRUE>> }

\* lines 903-910: next candidate, reinitializeCAN, start of its window
BaudTry ==
  /\ pc = "baud_try"
  /\ baudIdx < numRates
  /\ \E o \in ReinitOutcomes :
       LET baudRate == baudRates[baudIdx + 1]
           r == reinitializeCAN(ctrl, baudRate, o[1], o[2])
       IN /\ ctrl' = r.ctrl
          /\ tried' = Append(tried, baudRate)
          /\ IF r.ok
             THEN /\ startTime' = now
                  /\ frameCount' = WindowFrameCount(frameCount)
                  /\ rxUnder' = [rxUnder EXCEPT !.cur = 0]
                  /\ pc' = "baud_poll"
                  /\ UNCHANGED << baudIdx, reinitFailed >>
             ELSE /\ baudIdx' = NextCandidate(baudIdx)
                  /\ reinitFailed' = reinitFailed \cup {baudIdx}
                  /\ UNCHANGED << startTime, frameCount, rxUnder, pc >>
  /\ UNCHANGED env
  /\ UNCHANGED << now, scans, detectedCodes, activeECUs, vehicleDetected,
                  scanStartTime, ecuStart, uniqueIDs, detectedBaudRate, probeIdx,
                  dtcIdx, response, status, progress, txLog, phases, late >>
  /\ UNCHANGED rxData
  /\ script' = (script /\ Undisturbed)
  /\ UNCHANGED kioskVars
  /\ Recorded

\* lines 912-920: twai_receive returns a frame
BaudRxFrame ==
  /\ pc = "baud_poll"
  /\ now - startTime < BAUD_DETECT_TIMEOUT_MS
  /\ ctrl.st = "running"
  /\ \E d \in (IF Rich("detect") THEN RxDelays(BAUD_RX_TIMEOUT_MS) ELSE {0}) :
       now' = now + d
  /\ frameCount' = frameCount + 1
  /\ rxUnder' = [rxUnder EXCEPT !.cur = @ + 1]
  /\ IF frameCount' >= BAUD_FRAMES_NEEDED
     THEN /\ detectedBaudRate' = baudRates[baudIdx + 1]
          /\ pc' = "baud_ret"
     ELSE UNCHANGED << detectedBaudRate, pc >>
  /\ UNCHANGED << scans, ctrl, detectedCodes, activeECUs, vehicleDetected,
                  scanStartTime, startTime, ecuStart, baudIdx, uniqueIDs, probeIdx,
                  dtcIdx, response, status, progress, txLog, phases, late, tried,
                  reinitFailed, env >>
  /\ UNCHANGED rxData
  /\ UNCHANGED script
  /\ UNCHANGED kioskVars
  /\ Recorded

\* lines 912-914: twai_receive times out once
BaudRxTimeout ==
  /\ pc = "baud_poll"
  /\ now - startTime < BAUD_DETECT_TIMEOUT_MS
  /\ Rich("detect")
  /\ env.idle < MaxIdlePolls
  /\ now' = now + BAUD_RX_TIMEOUT_MS
  /\ env' = [env EXCEPT !.idle = @ + 1]
  /\ UNCHANGED << pc, scans, ctrl, detectedCodes, activeECUs, vehicleDetected,
                  scanStartTime, startTime, ecuStart, baudIdx, frameCount,
                  uniqueIDs, detectedBaudRate, probeIdx, dtcIdx, response, status,
                  progress, txLog, phases, late, tried, reinitFailed, rxUnder >>
  /\ UNCHANGED rxData
  /\ UNCHANGED script
  /\ UNCHANGED kioskVars
  /\ Recorded

\* lines 912-921: every further twai_receive of the window times out
BaudRxSilent ==
  /\ pc = "baud_poll"
  /\ now - startTime < BAUD_DETECT_TIMEOUT_MS
  /\ Rich("detect")
  /\ now' = PollOut(now, startTime, BAUD_DETECT_TIMEOUT_MS, BAUD_RX_TIMEOUT_MS)
  /\ UNCHANGED << pc, scans, ctrl, detectedCodes, activeECUs, vehicleDetected,
                  scanStartTime, startTime, ecuStart, baudIdx, frameCount,
                  uniqueIDs, detectedBaudRate, probeIdx, dtcIdx, response, status,
                  progress, txLog, phases, late, tried, reinitFailed, rxUnder, env >>
  /\ UNCHANGED rxData
  /\ UNCHANGED script
  /\ UNCHANGED kioskVars
  /\ Recorded

\* lines 912, 922-924: the window has elapsed, on to the next candidate
BaudWindowExpired ==
  /\ pc = "baud_poll"
  /\ ~(now - startTime < BAUD_DETECT_TIMEOUT_MS)
  /\ baudIdx' = NextCandidate(baudIdx)
  /\ rxUnder' = [rxUnder EXCEPT !.stray = @ \/ rxUnder.cur > 0]
  /\ pc' = "baud_try"
  /\ UNCHANGED << now, scans, ctrl, detectedCodes, activeECUs, vehicleDetected,
                  scanStartTime, startTime, ecuStart, frameCount, uniqueIDs,
                  detectedBaudRate, probeIdx, dtcIdx, response, status, progress,
                  txLog, phases, late, tried, reinitFailed, env >>
  /\ UNCHANGED rxData
  /\ script' = FALSE
  /\ UNCHANGED kioskVars
  /\ Recorded

\* lines 903, 926: no candidate left, autoDetectCANBaudRate returns 0
BaudExhausted ==
  /\ pc = "baud_try"
  /\ ~(baudIdx < numRates)
  /\ detectedBaudRate' = 0
  /\ pc' = "baud_ret"
  /\ UNCHANGED << now, scans, ctrl, detectedCodes, activeECUs, vehicleDetected,
                  scanStartTime, startTime, ecuStart, baudIdx, frameCount,
                  uniqueIDs, probeIdx, dtcIdx, response, status, progress, txLog,
                  phases, late, tried, reinitFailed, rxUnder, env >>
  /\ UNCHANGED rxData
  /\ UNCHANGED script
  /\ UNCHANGED kioskVars
  /\ Recorded

\* lines 764-769: "No vehicle detected"
NoVehicle ==
  /\ pc = "baud_ret"
  /\ NoActivity(detectedBaudRate)
  /\ now' = now + NO_VEHICLE_DELAY_MS
  /\ UNCHANGED env
  /\ progress' = Append(progress, 100)
  /\ status' = "NoVehicleDetected"
  /\ pc' = "done"
  /\ UNCHANGED << scans, ctrl, detectedCodes, activeECUs, vehicleDetected,
                  scanStartTime, startTime, ecuStart, baudIdx, frameCount,
                  uniqueIDs, detectedBaudRate, probeIdx, dtcIdx, response, txLog,
                  phases, late, tried, reinitFailed, rxUnder >>
  /\ UNCHANGED rxData
  /\ UNCHANGED script
  /\ UNCHANGED kioskVars
  /\ Recorded

(***************************************************************************)
(* performDiagnosticScan, first boundary: lines 771-785                    *)
(***************************************************************************)
\* lines 772-777
ScanTimeout1 ==
  /\ pc = "baud_ret"
  /\ ~NoActivity(detectedBaudRate)
  /\ Elapsed(now) > TOTAL_SCAN_TIMEOUT_MS
  /\ late' = late \cup {1}
  /\ now' = now + SCAN_TIMEOUT_DELAY_MS
  /\ UNCHANGED env
  /\ progress' = Append(progress, 100)
  /\ status' = "TimedOut"
  /\ pc' = "done"
  /\ UNCHANGED << scans, ctrl, detectedCodes, activeECUs, vehicleDetected,
                  scanStartTime, startTime, ecuStart, baudIdx, frameCount,
                  uniqueIDs, detectedBaudRate, probeIdx, dtcIdx, response, txLog,
                  phases, tried, reinitFailed, rxUnder >>
  /\ UNCHANGED rxData
  /\ script' = FALSE
  /\ UNCHANGED kioskVars
  /\ Recorded

\* lines 779-785 and 965-967: vehicle found, listenForCANTraffic starts
BeginSniff ==
  /\ pc = "baud_ret"
  /\ ~NoActivity(detectedBaudRate)
  /\ ~(Elapsed(now) > TOTAL_SCAN_TIMEOUT_MS)
  /\ vehicleDetected' = TRUE
  /\ progress' = Append(progress, 25)
  /\ \E d \in StallChoices("scan") :
       /\ now' = now + d
       /\ env' = Stalled(env, d)
       /\ startTime' = now + d
  /\ phases' = Append(phases, "sniff")
  /\ frameCount' = 0
  /\ uniqueIDs' = <<>>
  /\ pc' = "sniff_poll"
  /\ UNCHANGED << scans, ctrl, detectedCodes, activeECUs, scanStartTime,
                  ecuStart, baudIdx, detectedBaudRate, probeIdx, dtcIdx, response,
                  status, txLog, late, tried, reinitFailed, rxUnder >>
  /\ UNCHANGED rxData
  /\ script' = (script /\ Undisturbed)
  /\ UNCHANGED kioskVars
  /\ Recorded

(***************************************************************************)
(* listenForCANTraffic                                                     *)
(***************************************************************************)
InSeq(s, x) == \E k \in 1..Len(s) : s[k] = x

\* a sniff that seeds discovery with the identifiers it sees
SniffRxFrame_Seeds ==
  /\ pc = "sniff_poll"
  /\ now - startTime < TRAFFIC_LISTEN_TIMEOUT_MS
  /\ Rich("scan")
  /\ env.rx < MaxRxFrames
  /\ \E id \in FrameIds, d \in RxDelays(SNIFF_RX_TIMEOUT_MS) :
       /\ now' = now + d
       /\ uniqueIDs' = IF InSeq(uniqueIDs, id) THEN uniqueIDs ELSE Append(uniqueIDs, id)
       /\ activeECUs' = Append(activeECUs, id)
  /\ frameCount' = frameCount + 1
  /\ env' = [env EXCEPT !.rx = @ + 1]
  /\ UNCHANGED << pc, scans, ctrl, detectedCodes, vehicleDetected,
                  scanStartTime, startTime, ecuStart, baudIdx, detectedBaudRate,
                  probeIdx, dtcIdx, response, status, progress, txLog, phases,
                  late, tried, reinitFailed, rxUnder >>
  /\ UNCHANGED rxData
  /\ UNCHANGED script
  /\ UNCHANGED kioskVars
  /\ Recorded

\* lines 969-1002: a frame is received and tallied
SniffRxFrame ==
  /\ pc = "sniff_poll"
  /\ now - startTime < TRAFFIC_LISTEN_TIMEOUT_MS
  /\ Rich("scan")
  /\ env.rx < MaxRxFrames
  /\ \E id \in FrameIds, d \in RxDelays(SNIFF_RX_TIMEOUT_MS) :
       /\ now' = now + d
       /\ uniqueIDs' = IF InSeq(uniqueIDs, id) THEN uniqueIDs ELSE Append(uniqueIDs, id)
  /\ frameCount' = frameCount + 1
  /\ env' = [env EXCEPT !.rx = @ + 1]
  /\ UNCHANGED << pc, scans, ctrl, detectedCodes, activeECUs, vehicleDetected,
                  scanStartTime, startTime, ecuStart, baudIdx, detectedBaudRate,
                  probeIdx, dtcIdx, response, status, progress, txLog, phases,
                  late, tried, reinitFailed, rxUnder >>
  /\ UNCHANGED rxData
  /\ UNCHANGED script
  /\ UNCHANGED kioskVars
  /\ Recorded

\* lines 969-971: twai_receive times out once
SniffRxTimeout ==
  /\ pc = "sniff_poll"
  /\ now - startTime < TRAFFIC_LISTEN_TIMEOUT_MS
  /\ Rich("scan")
  /\ env.idle < MaxIdlePolls
  /\ now' = now + SNIFF_RX_TIMEOUT_MS
  /\ env' = [env EXCEPT !.idle = @ + 1]
  /\ UNCHANGED << pc, scans, ctrl, detectedCodes, activeECUs, vehicleDetected,
                  scanStartTime, startTime, ecuStart, baudIdx, frameCount,
                  uniqueIDs, detectedBaudRate, probeIdx, dtcIdx, response, status,
                  progress, txLog, phases, late, tried, reinitFailed, rxUnder >>
  /\ UNCHANGED rxData
  /\ UNCHANGED script
  /\ UNCHANGED kioskVars
  /\ Recorded

\* lines 969-1003: every further twai_receive of the sniff times out
SniffRxSilent ==
  /\ pc = "sniff_poll"
  /\ now - startTime < TRAFFIC_LISTEN_TIMEOUT_MS
  /\ now' = PollOut(now, startTime, TRAFFIC_LISTEN_TIMEOUT_MS, SNIFF_RX_TIMEOUT_MS)
  /\ UNCHANGED << pc, scans, ctrl, detectedCodes, activeECUs, vehicleDetected,
                  scanStartTime, startTime, ecuStart, baudIdx, frameCount,
                  uniqueIDs, detectedBaudRate, probeIdx, dtcIdx, response, status,
                  progress, txLog, phases, late, tried, reinitFailed, rxUnder, env >>
  /\ UNCHANGED rxData
  /\ UNCHANGED script
  /\ UNCHANGED kioskVars
  /\ Recorded

\* lines 1005-1012, 786, 789-794: sniff over, deadline passed
ScanTimeout2 ==
  /\ pc = "sniff_poll"
  /\ ~(now - startTime < TRAFFIC_LISTEN_TIMEOUT_MS)
  /\ \E d \in StallChoices("scan") :
       /\ Elapsed(now + d) > TOTAL_SCAN_TIMEOUT_MS
       /\ now' = now + d + SCAN_TIMEOUT_DELAY_MS
       /\ env' = Stalled(env, d)
  /\ late' = late \cup {2}
  /\ progress' = progress \o <<50, 100>>
  /\ status' = "TimedOut"
  /\ uniqueIDs' = <<>>
  /\ pc' = "done"
  /\ UNCHANGED << scans, ctrl, detectedCodes, activeECUs, vehicleDetected,
                  scanStartTime, startTime, ecuStart, baudIdx, frameCount,
                  detectedBaudRate, probeIdx, dtcIdx, response, txLog, phases,
                  tried, reinitFailed, rxUnder >>
  /\ UNCHANGED rxData
  /\ script' = FALSE
  /\ UNCHANGED kioskVars
  /\ Recorded

\* lines 1005-1012, 786, 789, 796-798, 1072-1075: sniff over, discovery starts
BeginProbe ==
  /\ pc = "sniff_poll"
  /\ ~(now - startTime < TRAFFIC_LISTEN_TIMEOUT_MS)
  /\ \E d \in StallChoices("scan") :
       /\ ~(Elapsed(now + d) > TOTAL_SCAN_TIMEOUT_MS)
       /\ now' = now + d
       /\ env' = Stalled(env, d)
       /\ startTime' = now + d
  /\ progress' = Append(progress, 50)
  /\ phases' = Append(phases, "probe")
  /\ uniqueIDs' = <<>>
  /\ probeIdx' = 0
  /\ pc' = "probe_loop"
  /\ UNCHANGED << scans, ctrl, detectedCodes, activeECUs, vehicleDetected,
                  scanStartTime, ecuStart, baudIdx, frameCount, detectedBaudRate,
                  dtcIdx, response, status, txLog, late, tried, reinitFailed,
                  rxUnder >>
  /\ UNCHANGED rxData
  /\ script' = (script /\ Undisturbed)
  /\ UNCHANGED kioskVars
  /\ Recorded

(***************************************************************************)
(* probeOBD2ECUsWithTimeout                                                *)
(***************************************************************************)
\* what twai_transmit may return; failed transmits follow one another (the bus is
\* off for a while)
TxOutcomes ==
  IF /\ Rich("scan")
     /\ env.txFail < MaxTxFail
     /\ (env.txFail = 0 \/ ~txLog[Len(txLog)].ok)
  THEN {TRUE, FALSE}
  ELSE {TRUE}
TxCounted(e, ok) == [e EXCEPT !.txFail = @ + (IF ok THEN 0 ELSE 1)]

\* a progress value scaled by the stride of the reports instead of NUM_ECUS
ProbeProgress_ByStride(i) == 50 + ((i * 25) \div 4)

\* line 1088
ProbeProgress(i) == 50 + ((i * 25) \div NUM_ECUS)

\* lines 1075-1109 (and 1132 when the transmit fails): the next address is probed
ProbeNext ==
  /\ pc = "probe_loop"
  /\ probeIdx < NUM_ECUS
  /\ ~(now - startTime > ECU_PROBE_TIMEOUT_MS)
  /\ \E d \in (IF probeIdx % 4 = 0 THEN StallChoices("scan") ELSE {0}), ok \in TxOutcomes :
       LET ecuAddr == OBD2_ADDRESSES[probeIdx + 1]
           t == now + d
       IN /\ txLog' = Append(txLog, [id |-> ecuAddr, mode |-> 1, ok |-> ok])
          /\ env' = TxCounted(Stalled(env, d), ok)
          /\ IF ok
             THEN /\ now' = t
                  /\ ecuStart' = t
                  /\ pc' = "probe_wait"
                  /\ UNCHANGED probeIdx
             ELSE /\ now' = t + PROBE_TX_TIMEOUT_MS + PROBE_PAUSE_MS
                  /\ probeIdx' = probeIdx + 1
                  /\ UNCHANGED << ecuStart, pc >>
  /\ progress' = IF probeIdx % 4 = 0
                 THEN Append(progress, ProbeProgress(probeIdx))
                 ELSE progress
  /\ response' = 0
  /\ UNCHANGED << scans, ctrl, detectedCodes, activeECUs, vehicleDetected,
                  scanStartTime, startTime, baudIdx, frameCount, uniqueIDs,
                  detectedBaudRate, dtcIdx, status, phases, late, tried,
                  reinitFailed, rxUnder >>
  /\ UNCHANGED rxData
  /\ script' = (script /\ Undisturbed)
  /\ UNCHANGED kioskVars
  /\ Recorded

\* lines 1110-1127, 1132: a frame is received while waiting for the answer
ProbeRxFrame ==
  /\ pc = "probe_wait"
  /\ now - ecuStart < ECU_WAIT_MS
  /\ Rich("scan")
  /\ env.rx < MaxRxFrames
  /\ \E id \in FrameIds, d \in RxDelays(PROBE_RX_TIMEOUT_MS) :
       LET ecuAddr == OBD2_ADDRESSES[probeIdx + 1]
       IN /\ response' = id
          /\ IF Qualifies(id, ecuAddr)
             THEN /\ activeECUs' = Append(activeECUs, id)
                  /\ now' = now + d + PROBE_PAUSE_MS
                  /\ probeIdx' = probeIdx + 1
                  /\ pc' = "probe_loop"
             ELSE /\ now' = now + d
                  /\ UNCHANGED << activeECUs, probeIdx, pc >>
  /\ env' = [env EXCEPT !.rx = @ + 1]
  /\ UNCHANGED << scans, ctrl, detectedCodes, vehicleDetected, scanStartTime,
                  startTime, ecuStart, baudIdx, frameCount, uniqueIDs,
                  detectedBaudRate, dtcIdx, status, progress, txLog, phases, late,
                  tried, reinitFailed, rxUnder >>
  /\ UNCHANGED rxData
  /\ script' = (script /\ probeIdx = 0 /\ response' = ExampleEcu)
  /\ UNCHANGED kioskVars
  /\ Recorded

\* lines 1110-1111: twai_receive times out once
ProbeRxTimeout ==
  /\ pc = "probe_wait"
  /\ now - ecuStart < ECU_WAIT_MS
  /\ Rich("scan")
  /\ env.idle < MaxIdlePolls
  /\ now' = now + PROBE_RX_TIMEOUT_MS
  /\ env' = [env EXCEPT !.idle = @ + 1]
  /\ UNCHANGED << pc, scans, ctrl, detectedCodes, activeECUs, vehicleDetected,
                  scanStartTime, startTime, ecuStart, baudIdx, frameCount,
                  uniqueIDs, detectedBaudRate, probeIdx, dtcIdx, response, status,
                  progress, txLog, phases, late, tried, reinitFailed, rxUnder >>
  /\ UNCHANGED rxData
  /\ UNCHANGED script
  /\ UNCHANGED kioskVars
  /\ Recorded

\* lines 1110-1129: every further twai_receive of this wait times out
ProbeRxSilent ==
  /\ pc = "probe_wait"
  /\ now - ecuStart < ECU_WAIT_MS
  /\ now' = PollOut(now, ecuStart, ECU_WAIT_MS, PROBE_RX_TIMEOUT_MS)
  /\ UNCHANGED << pc, scans, ctrl, detectedCodes, activeECUs, vehicleDetected,
                  scanStartTime, startTime, ecuStart, baudIdx, frameCount,
                  uniqueIDs, detectedBaudRate, probeIdx, dtcIdx, response, status,
                  progress, txLog, phases, late, tried, reinitFailed, rxUnder, env >>
  /\ UNCHANGED rxData
  /\ UNCHANGED script
  /\ UNCHANGED kioskVars
  /\ Recorded

\* lines 1110, 1130-1133: the wait has elapsed, pause, next address
ProbeWaitExpired ==
  /\ pc = "probe_wait"
  /\ ~(now - ecuStart < ECU_WAIT_MS)
  /\ now' = now + PROBE_PAUSE_MS
  /\ probeIdx' = probeIdx + 1
  /\ pc' = "probe_loop"
  /\ UNCHANGED << scans, ctrl, detectedCodes, activeECUs, vehicleDetected,
                  scanStartTime, startTime, ecuStart, baudIdx, frameCount,
                  uniqueIDs, detectedBaudRate, dtcIdx, response, status, progress,
                  txLog, phases, late, tried, reinitFailed, rxUnder, env >>
  /\ UNCHANGED rxData
  /\ script' = (script /\ probeIdx # 0)
  /\ UNCHANGED kioskVars
  /\ Recorded

\* a discovery that is run again when it returns
ProbeReturn_Retry ==
  /\ progress' = Append(progress, 75)
  /\ phases' = Append(phases, "probe")
  /\ startTime' = now
  /\ probeIdx' = 0
  /\ pc' = "probe_loop"
  /\ UNCHANGED << now, env, late, dtcIdx, scans, ctrl, detectedCodes, activeECUs,
                  vehicleDetected, scanStartTime, ecuStart, baudIdx, frameCount,
                  uniqueIDs, detectedBaudRate, response, status, txLog, tried,
                  reinitFailed, rxUnder >>
  /\ UNCHANGED rxData
  /\ UNCHANGED script
  /\ UNCHANGED kioskVars
  /\ Recorded

\* lines 1135, 799-803, 1166-1174: discovery returns and scanAllDTCs is called
ProbeReturn ==
  /\ late' = IF Elapsed(now) > TOTAL_SCAN_TIMEOUT_MS THEN late \cup {3} ELSE late
  /\ progress' = Append(progress, 75)
  /\ UNCHANGED << now, env >>
  /\ phases' = Append(phases, "dtc")
  /\ dtcIdx' = 1
  /\ pc' = "dtc_loop"
  /\ UNCHANGED << scans, ctrl, detectedCodes, activeECUs, vehicleDetected,
                  scanStartTime, startTime, ecuStart, baudIdx, frameCount,
                  uniqueIDs, detectedBaudRate, probeIdx, response, status, txLog,
                  tried, reinitFailed, rxUnder >>
  /\ UNCHANGED rxData
  /\ UNCHANGED script
  /\ UNCHANGED kioskVars
  /\ Recorded

\* lines 1077-1080: the 15 s sub-deadline is found exceeded
ProbeSubDeadline ==
  /\ pc = "probe_loop"
  /\ probeIdx < NUM_ECUS
  /\ now - startTime > ECU_PROBE_TIMEOUT_MS
  /\ ProbeReturn

\* line 1075: all addresses have been probed
ProbeAllDone ==
  /\ pc = "probe_loop"
  /\ ~(probeIdx < NUM_ECUS)
  /\ ProbeReturn

(***************************************************************************)
(* parseAndStoreDTC                                                        *)
(***************************************************************************)
HexChars ==
  << "0", "1", "2", "3", "4", "5", "6", "7", "8", "9", "a", "b", "c", "d", "e", "f" >>

\* String(n, HEX): lower-case digits, no leading zeros
RECURSIVE HexString(_)
HexString(n) ==
  IF n < 16 THEN << HexChars[n + 1] >>
  ELSE Append(HexString(n \div 16), HexChars[(n % 16) + 1])

UpperChar(c) ==
  CASE c = "a" -> "A" [] c = "b" -> "B" [] c = "c" -> "C"
    [] c = "d" -> "D" [] c = "e" -> "E" [] c = "f" -> "F"
    [] OTHER -> c

toUpperCase(s) == [k \in 1..Len(s) |-> UpperChar(s[k])]

\* a decoder that reports every code as a powertrain code
Category_AlwaysP(byte1) == "P"

\* lines 869-872
Category(byte1) ==
  LET top == (byte1 \div 64) * 64      \* byte1 & 0xC0
  IN IF top = 64 THEN "C"
     ELSE IF top = 128 THEN "B"
     ELSE IF top = 192 THEN "U"
     ELSE "P"

\* line 874
CodeNumber(byte1, byte2) == ((byte1 % 64) * 256) + byte2

\* a padding that adds the zeros at the end
RECURSIVE PadCode_AtEnd(_)
PadCode_AtEnd(s) ==
  IF Len(s) < 5 THEN PadCode_AtEnd(Append(s, "0")) ELSE s

\* lines 879-881
RECURSIVE PadCode(_)
PadCode(s) ==
  IF Len(s) < 5
  THEN PadCode(SubSeq(s, 1, 1) \o << "0" >> \o SubSeq(s, 2, Len(s)))
  ELSE s

\* a code string that is not padded
DtcCode_Unpadded(byte1, byte2) ==
  toUpperCase(<< Category(byte1) >> \o HexString(CodeNumber(byte1, byte2)))

\* lines 875-881
DtcCode(byte1, byte2) ==
  PadCode(toUpperCase(<< Category(byte1) >> \o HexString(CodeNumber(byte1, byte2))))

\* a record that is stored as pending
MakeFault_Pending(byte1, byte2, ecuId) ==
  [ code |-> DtcCode(byte1, byte2),
    system |-> << "E", "C", "U", " ", "0", "x" >> \o HexString(ecuId),
    isPending |-> TRUE,
    ecuId |-> ecuId ]

\* lines 883-887
MakeFault(byte1, byte2, ecuId) ==
  [ code |-> DtcCode(byte1, byte2),
    system |-> << "E", "C", "U", " ", "0", "x" >> \o HexString(ecuId),
    isPending |-> FALSE,
    ecuId |-> ecuId ]

\* a loop that decodes the pair (0, 0) as well
RECURSIVE ParseFrom_KeepZero(_, _, _, _, _)
ParseFrom_KeepZero(codes, data, len, ecuId, i) ==
  IF i < len - 1
  THEN ParseFrom_KeepZero(Append(codes, MakeFault(data[i + 1], data[i + 2], ecuId)),
                          data, len, ecuId, i + 2)
  ELSE codes

\* the loop of lines 862-892 from 0-based index i on; data[i] is data[i + 1] here
RECURSIVE ParseFrom(_, _, _, _, _)
ParseFrom(codes, data, len, ecuId, i) ==
  IF i < len - 1
  THEN LET byte1 == data[i + 1]
           byte2 == data[i + 2]
       IN IF byte1 = 0 /\ byte2 = 0
          THEN ParseFrom(codes, data, len, ecuId, i + 2)
          ELSE ParseFrom(Append(codes, MakeFault(byte1, byte2, ecuId)),
                         data, len, ecuId, i + 2)
  ELSE codes

parseAndStoreDTC(codes, data, len, ecuId) == ParseFrom(codes, data, len, ecuId, 2)

(***************************************************************************)
(* scanAllDTCs                                                             *)
(***************************************************************************)
\* lines 1178-1181
RequestId(ecuId) ==
  IF ecuId >= RESP_LO /\ ecuId <= RESP_HI THEN ecuId - RESP_OFFSET ELSE ecuId

\* lines 1174-1199 (and 1219 when the transmit fails): the next active ECU is asked
DtcNext ==
  /\ pc = "dtc_loop"
  /\ dtcIdx <= Len(activeECUs)
  /\ \E ok \in TxOutcomes :
       LET ecuId == activeECUs[dtcIdx]
       IN /\ txLog' = Append(txLog, [id |-> RequestId(ecuId), mode |-> 3, ok |-> ok])
          /\ env' = TxCounted(env, ok)
          /\ IF ok
             THEN /\ ecuStart' = now
                  /\ pc' = "dtc_wait"
                  /\ UNCHANGED << now, dtcIdx >>
             ELSE /\ now' = now + DTC_TX_TIMEOUT_MS + DTC_PAUSE_MS
                  /\ dtcIdx' = dtcIdx + 1
                  /\ UNCHANGED << ecuStart, pc >>
  /\ response' = 0
  /\ UNCHANGED << scans, ctrl, detectedCodes, activeECUs, vehicleDetected,
                  scanStartTime, startTime, baudIdx, frameCount, uniqueIDs,
                  detectedBaudRate, probeIdx, status, progress, phases, late,
                  tried, reinitFailed, rxUnder >>
  /\ rxData' = NoData
  /\ script' = (script /\ Undisturbed)
  /\ UNCHANGED kioskVars
  /\ Recorded

\* lines 1210-1212
StoreAnswer(codes, data, ecuId) ==
  IF Len(data) > 2 THEN parseAndStoreDTC(codes, data, Len(data), ecuId) ELSE codes

\* line 1203
DtcMatches_Any(id, ecuId) == TRUE
DtcMatches(id, ecuId) == id = ecuId

\* lines 1200-1215, 1219: a frame is received while waiting for the DTC answer
DtcRxFrame ==
  /\ pc = "dtc_wait"
  /\ now - ecuStart < DTC_WAIT_MS
  /\ Rich("scan")
  /\ env.rx < MaxRxFrames
  /\ \E id \in FrameIds, data \in Payloads, d \in RxDelays(DTC_RX_TIMEOUT_MS) :
       LET ecuId == activeECUs[dtcIdx]
       IN /\ response' = id
          /\ IF DtcMatches(id, ecuId)
             THEN /\ detectedCodes' = StoreAnswer(detectedCodes, data, ecuId)
                  /\ rxData' = data
                  /\ now' = now + d + DTC_PAUSE_MS
                  /\ dtcIdx' = dtcIdx + 1
                  /\ pc' = "dtc_loop"
             ELSE /\ now' = now + d
                  /\ UNCHANGED << detectedCodes, dtcIdx, pc, rxData >>
  /\ env' = [env EXCEPT !.rx = @ + 1]
  /\ UNCHANGED << scans, ctrl, activeECUs, vehicleDetected, scanStartTime,
                  startTime, ecuStart, baudIdx, frameCount, uniqueIDs,
                  detectedBaudRate, probeIdx, status, progress, txLog, phases,
                  late, tried, reinitFailed, rxUnder >>
  /\ script' = (script /\ response' = ExampleEcu /\ rxData' = ExamplePayload)
  /\ UNCHANGED kioskVars
  /\ Recorded

\* lines 1200-1202: twai_receive times out once
DtcRxTimeout ==
  /\ pc = "dtc_wait"
  /\ now - ecuStart < DTC_WAIT_MS
  /\ Rich("scan")
  /\ env.idle < MaxIdlePolls
  /\ now' = now + DTC_RX_TIMEOUT_MS
  /\ env' = [env EXCEPT !.idle = @ + 1]
  /\ UNCHANGED << pc, scans, ctrl, detectedCodes, activeECUs, vehicleDetected,
                  scanStartTime, startTime, ecuStart, baudIdx, frameCount,
                  uniqueIDs, detectedBaudRate, probeIdx, dtcIdx, response, status,
                  progress, txLog, phases, late, tried, reinitFailed, rxUnder >>
  /\ UNCHANGED rxData
  /\ UNCHANGED script
  /\ UNCHANGED kioskVars
  /\ Recorded

\* lines 1200-1216: every further twai_receive of this wait times out
DtcRxSilent ==
  /\ pc = "dtc_wait"
  /\ now - ecuStart < DTC_WAIT_MS
  /\ now' = PollOut(now, ecuStart, DTC_WAIT_MS, DTC_RX_TIMEOUT_MS)
  /\ UNCHANGED << pc, scans, ctrl, detectedCodes, activeECUs, vehicleDetected,
                  scanStartTime, startTime, ecuStart, baudIdx, frameCount,
                  uniqueIDs, detectedBaudRate, probeIdx, dtcIdx, response, status,
                  progress, txLog, phases, late, tried, reinitFailed, rxUnder, env >>
  /\ UNCHANGED rxData
  /\ UNCHANGED script
  /\ UNCHANGED kioskVars
  /\ Recorded

\* lines 1200, 1217-1220: the wait has elapsed, pause, next ECU
DtcWaitExpired ==
  /\ pc = "dtc_wait"
  /\ ~(now - ecuStart < DTC_WAIT_MS)
  /\ now' = now + DTC_PAUSE_MS
  /\ dtcIdx' = dtcIdx + 1
  /\ pc' = "dtc_loop"
  /\ UNCHANGED << scans, ctrl, detectedCodes, activeECUs, vehicleDetected,
                  scanStartTime, startTime, ecuStart, baudIdx, frameCount,
                  uniqueIDs, detectedBaudRate, probeIdx, response, status, progress,
                  txLog, phases, late, tried, reinitFailed, rxUnder, env >>
  /\ UNCHANGED rxData
  /\ script' = FALSE
  /\ UNCHANGED kioskVars
  /\ Recorded

\* lines 1167-1170 / 1174, 1221 and 804-809: scanAllDTCs returns, "Scan complete!"
ScanComplete ==
  /\ pc = "dtc_loop"
  /\ ~(dtcIdx <= Len(activeECUs))
  /\ UNCHANGED << now, env >>
  /\ progress' = Append(progress, 100)
  /\ status' = "Completed"
  /\ pc' = "done"
  /\ UNCHANGED << scans, ctrl, detectedCodes, activeECUs, vehicleDetected,
                  scanStartTime, startTime, ecuStart, baudIdx, frameCount,
                  uniqueIDs, detectedBaudRate, probeIdx, dtcIdx, response, txLog,
                  phases, late, tried, reinitFailed, rxUnder >>
  /\ UNCHANGED rxData
  /\ UNCHANGED script
  /\ UNCHANGED kioskVars
  /\ Recorded

(***************************************************************************)
(* After the scan: updateKioskState shows the results and resetToReady     *)
(* clears them for the next session (lines 296-309, 1229-1235).            *)
(***************************************************************************)
\* lines 1233-1235 left out: the results of the scan stay
Cleared_KeepsResults ==
  /\ UNCHANGED << detectedCodes, activeECUs, vehicleDetected >>
  /\ pc' = "idle"
  /\ status' = "none"
  /\ progress' = <<>>
  /\ txLog' = <<>>
  /\ phases' = <<>>
  /\ late' = {}
  /\ tried' = <<>>
  /\ reinitFailed' = {}
  /\ rxUnder' = [cur |-> 0, stray |-> FALSE]
  /\ scanStartTime' = 0
  /\ startTime' = 0
  /\ ecuStart' = 0
  /\ baudIdx' = 0
  /\ frameCount' = 0
  /\ detectedBaudRate' = 0
  /\ probeIdx' = 0
  /\ dtcIdx' = 0
  /\ response' = 0
  /\ UNCHANGED << scans, ctrl, uniqueIDs >>
  /\ rxData' = NoData
  /\ script' = TRUE

\* lines 1233-1235: the results are cleared; the locals and the observers of
\* the scan that has returned are forgotten with them
Cleared ==
  /\ detectedCodes' = <<>>
  /\ activeECUs' = <<>>
  /\ vehicleDetected' = FALSE
  /\ pc' = "idle"
  /\ status' = "none"
  /\ progress' = <<>>
  /\ txLog' = <<>>
  /\ phases' = <<>>
  /\ late' = {}
  /\ tried' = <<>>
  /\ reinitFailed' = {}
  /\ rxUnder' = [cur |-> 0, stray |-> FALSE]
  /\ scanStartTime' = 0
  /\ startTime' = 0
  /\ ecuStart' = 0
  /\ baudIdx' = 0
  /\ frameCount' = 0
  /\ detectedBaudRate' = 0
  /\ probeIdx' = 0
  /\ dtcIdx' = 0
  /\ response' = 0
  /\ UNCHANGED << scans, ctrl, uniqueIDs >>
  /\ rxData' = NoData
  /\ script' = TRUE

resetToReady ==
  /\ pc = "done"
  /\ mode # "kiosk"
  /\ now' = ((now \div SessionGapMs) + 1) * SessionGapMs
  /\ env' \in {EnvZero(f) : f \in Focuses}
  /\ Cleared
  /\ UNCHANGED kioskVars
  /\ Remembered

Next ==
  \/ StartScan
  \/ BaudTry
  \/ BaudRxFrame
  \/ BaudRxTimeout
  \/ BaudRxSilent
  \/ BaudWindowExpired
  \/ BaudExhausted
  \/ NoVehicle
  \/ ScanTimeout1
  \/ BeginSniff
  \/ SniffRxFrame
  \/ SniffRxTimeout
  \/ SniffRxSilent
  \/ ScanTimeout2
  \/ BeginProbe
  \/ ProbeNext
  \/ ProbeRxFrame
  \/ ProbeRxTimeout
  \/ ProbeRxSilent
  \/ ProbeWaitExpired
  \/ ProbeSubDeadline
  \/ ProbeAllDone
  \/ DtcNext
  \/ DtcRxFrame
  \/ DtcRxTimeout
  \/ DtcRxSilent
  \/ DtcWaitExpired
  \/ ScanComplete
  \/ resetToReady

Spec == Init /\ [][Next]_vars

\* one scan from the state after setup(); the thread keeps running, i.e. a
\* call that has been made returns
LiveInit ==
  /\ pc = "idle"
  /\ now = 0
  /\ scans = 0
  /\ ctrl \in { [st |-> "running", rate |-> 500000],
                [st |-> "stopped", rate |-> 500000],
                [st |-> "uninstalled", rate |-> 0] }
  /\ detectedCodes = <<>>
  /\ activeECUs = <<>>
  /\ vehicleDetected = FALSE
  /\ scanStartTime = 0
  /\ startTime = 0
  /\ ecuStart = 0
  /\ baudIdx = 0
  /\ frameCount = 0
  /\ uniqueIDs = <<>>
  /\ detectedBaudRate = 0
  /\ probeIdx = 0
  /\ dtcIdx = 0
  /\ response = 0
  /\ status = "none"
  /\ progress = <<>>
  /\ txLog = <<>>
  /\ phases = <<>>
  /\ late = {}
  /\ tried = <<>>
  /\ reinitFailed = {}
  /\ rxUnder = [cur |-> 0, stray |-> FALSE]
  /\ env \in {EnvZero(f) : f \in Focuses}
  /\ rxData = NoData
  /\ script = TRUE
  /\ mode = "live"
  /\ busLog = <<>>
  /\ replayPos = 0
  /\ firstReport = NoReport
  /\ KioskOff

LiveSpec == LiveInit /\ [][Next]_vars /\ WF_vars(Next)

\* two scans in sequence, the second against the bus behaviour of the first
ReplayInit ==
  /\ pc = "idle"
  /\ now = 0
  /\ scans = 0
  /\ ctrl \in { [st |-> "running", rate |-> 500000],
                [st |-> "stopped", rate |-> 500000],
                [st |-> "uninstalled", rate |-> 0] }
  /\ detectedCodes = <<>>
  /\ activeECUs = <<>>
  /\ vehicleDetected = FALSE
  /\ scanStartTime = 0
  /\ startTime = 0
  /\ ecuStart = 0
  /\ baudIdx = 0
  /\ frameCount = 0
  /\ uniqueIDs = <<>>
  /\ detectedBaudRate = 0
  /\ probeIdx = 0
  /\ dtcIdx = 0
  /\ response = 0
  /\ status = "none"
  /\ progress = <<>>
  /\ txLog = <<>>
  /\ phases = <<>>
  /\ late = {}
  /\ tried = <<>>
  /\ reinitFailed = {}
  /\ rxUnder = [cur |-> 0, stray |-> FALSE]
  /\ env \in {EnvZero(f) : f \in Focuses}
  /\ rxData = NoData
  /\ script = TRUE
  /\ mode = "replay"
  /\ busLog = <<>>
  /\ replayPos = 0
  /\ firstReport = NoReport
  /\ KioskOff

\* the scan runs in the only thread: a step that can be taken is taken
ReplaySpec == ReplayInit /\ [][Next]_vars /\ WF_vars(Next)

(***************************************************************************)
(* The decoder on its own: a frame from the ECU being collected has been   *)
(* received (line 1203) and its payload is handed to lines 1210-1212.      *)
(* DecInit draws the payload: every byte pair in the first slot, and every *)
(* payload of up to MaxPayloadLen bytes over a few byte values.            *)
(***************************************************************************)
\* uint8_t
BYTE_MAX == 255
Bytes == 0..BYTE_MAX

\* bytes of the longest payload drawn
MaxPayloadLen == 8
SampleBytes == {0, 1, 67}

PairPayloads == { <<4, 67, b1, b2>> : b1 \in Bytes, b2 \in Bytes }
SamplePayloads == UNION { [1..n -> SampleBytes] : n \in 0..MaxPayloadLen }

DecInit ==
  /\ pc = "dtc_answer"
  /\ rxData \in PairPayloads \cup SamplePayloads
  /\ response \in FrameIds
  /\ activeECUs = << response >>
  /\ dtcIdx = 1
  /\ detectedCodes = <<>>
  /\ now = 0
  /\ scans = 1
  /\ ctrl = [st |-> "running", rate |-> 500000]
  /\ vehicleDetected = TRUE
  /\ scanStartTime = 0
  /\ startTime = 0
  /\ ecuStart = 0
  /\ baudIdx = 0
  /\ frameCount = 0
  /\ uniqueIDs = <<>>
  /\ detectedBaudRate = 500000
  /\ probeIdx = NUM_ECUS
  /\ status = "running"
  /\ progress = <<>>
  /\ txLog = <<>>
  /\ phases = <<>>
  /\ late = {}
  /\ tried = <<>>
  /\ reinitFailed = {}
  /\ rxUnder = [cur |-> 0, stray |-> FALSE]
  /\ env = EnvZero("scan")
  /\ script = FALSE
  /\ mode = "plain"
  /\ busLog = <<>>
  /\ replayPos = 0
  /\ firstReport = NoReport
  /\ KioskOff

\* lines 1210-1213: the payload is decoded into detectedCodes
DecodeAnswer ==
  /\ pc = "dtc_answer"
  /\ detectedCodes' = StoreAnswer(detectedCodes, rxData, activeECUs[dtcIdx])
  /\ pc' = "dtc_decoded"
  /\ UNCHANGED << now, scans, ctrl, activeECUs, vehicleDetected, scanStartTime,
                  startTime, ecuStart, baudIdx, frameCount, uniqueIDs,
                  detectedBaudRate, probeIdx, dtcIdx, response, status, progress,
                  txLog, phases, late, tried, reinitFailed, rxUnder, env, rxData >>
  /\ UNCHANGED script
  /\ UNCHANGED kioskVars
  /\ Recorded

DecNext == DecodeAnswer

DecSpec == DecInit /\ [][DecNext]_vars

(***************************************************************************)
(* The kiosk: setup() and loop() (lines 145-189), one action per handler   *)
(* and case. Calls that take no part in the claims (HTTP requests, display *)
(* updates outside the scan) take no time here. The scans of a kiosk run   *)
(* meet a bus on which no call stalls, no transmit fails and a receive     *)
(* either returns a frame or finds the bus silent for the rest of its      *)
(* wait.                                                                   *)
(***************************************************************************)
\* lines 66, 67, 260, 305, 329, 342, 188
SESSION_TIMEOUT_MS == 300000
PAYMENT_POLL_INTERVAL == 3000
QR_SCAN_MS == 5000
RESULTS_SHORT_MS == 10000
RESULTS_LONG_MS == 60000
ERROR_DELAY_MS == 2000
DEBOUNCE_MS == 300
LOOP_DELAY_MS == 50

\* millis() when setup() has run
BootMs == 3000
\* sessions the server creates in a run, button presses in a run
MaxSessions == 2
MaxPresses == 2
\* the customer pays within this time after the payment screen appeared, or never
PaidWithinMs == 3100
\* a button is pressed within this time after a state was entered, or never;
\* the passes of loop() followed for a press are this far apart
PressWithinMs == 400
PressStepMs == 350
\* a wait for payment is followed this long
MaxWaitMs == 320000
\* frames the bus delivers after the detection phase of a scan of a kiosk run
KioskFrames == 2

KioskEnvs ==
  { [focus |-> f, stalls |-> MaxStalls, idle |-> MaxIdlePolls,
     rx |-> MaxRxFrames - KioskFrames, txFail |-> MaxTxFail] : f \in Focuses }

\* what createNewSession may return: a session id of the server, or ""
SessionOutcomes == IF sessions < MaxSessions THEN {TRUE, FALSE} ELSE {FALSE}
NewSessionId == << "session", sessions + 1 >>

\* a payment check that does not look at the answer
checkPaymentStatus_AnyAnswer(tid, paid) == Len(tid) # 0

\* lines 424-446; paid is what the server answers
checkPaymentStatus(tid, paid) == Len(tid) # 0 /\ paid
PaidAnswers ==
  IF scans < ScanLimit /\ now - stateStartTime <= PaidWithinMs
  THEN {TRUE, FALSE} ELSE {FALSE}

\* the first time t = now + k * LOOP_DELAY_MS, k >= 1, with t - s > limit
FirstAfter(s, limit) ==
  IF (now + LOOP_DELAY_MS) - s > limit
  THEN now + LOOP_DELAY_MS
  ELSE now + (LOOP_DELAY_MS * (((limit - (now - s)) \div LOOP_DELAY_MS) + 1))

KioskInit ==
  /\ pc = "idle"
  /\ now = BootMs
  /\ scans = 0
  /\ ctrl \in { [st |-> "running", rate |-> 500000],
                [st |-> "stopped", rate |-> 500000],
                [st |-> "uninstalled", rate |-> 0] }
  /\ detectedCodes = <<>>
  /\ activeECUs = <<>>
  /\ vehicleDetected = FALSE
  /\ scanStartTime = 0
  /\ startTime = 0
  /\ ecuStart = 0
  /\ baudIdx = 0
  /\ frameCount = 0
  /\ uniqueIDs = <<>>
  /\ detectedBaudRate = 0
  /\ probeIdx = 0
  /\ dtcIdx = 0
  /\ response = 0
  /\ status = "none"
  /\ progress = <<>>
  /\ txLog = <<>>
  /\ phases = <<>>
  /\ late = {}
  /\ tried = <<>>
  /\ reinitFailed = {}
  /\ rxUnder = [cur |-> 0, stray |-> FALSE]
  /\ env \in KioskEnvs
  /\ rxData = NoData
  /\ script = TRUE
  /\ mode = "kiosk"
  /\ busLog = <<>>
  /\ replayPos = 0
  /\ firstReport = NoReport
  \* lines 164-178: createNewSession on boot
  /\ \/ /\ transactionId = << "session", 1 >>
        /\ sessions = 1
        /\ currentState = "DISPLAY_QR"
        /\ sessionStartTime = now
     \/ /\ transactionId = << >>
        /\ sessions = 0
        /\ currentState = "READY_SCREEN"
        /\ sessionStartTime = 0
  /\ stateStartTime = now
  /\ lastPaymentCheck = 0
  /\ lastPress = 0
  /\ qrDisplayed = FALSE
  /\ qrDrawn = << >>
  /\ kpc = "button"
  /\ presses = 0
  /\ lastEvent = "none"

\* what a handler of the kiosk leaves alone: the driver and the locals of the scan
ScanIdle ==
  UNCHANGED << scans, ctrl, detectedCodes, activeECUs, vehicleDetected,
               scanStartTime, startTime, ecuStart, baudIdx, frameCount, uniqueIDs,
               detectedBaudRate, probeIdx, dtcIdx, response, status, progress,
               txLog, phases, late, tried, reinitFailed, rxUnder, env, rxData,
               script, mode, busLog, replayPos, firstReport, pc >>

InLoop(at) == mode = "kiosk" /\ kpc = at /\ pc \in {"idle", "done"}

\* lines 340-342: a press is seen, and the presses followed
Pressable ==
  /\ presses < MaxPresses
  /\ now - lastPress > DEBOUNCE_MS
  /\ now - stateStartTime <= PressWithinMs

(***************************************************************************)
(* handleButtonPress, lines 336-378                                        *)
(***************************************************************************)
\* lines 342-363: a press in READY_SCREEN
ButtonReadyScreen ==
  /\ InLoop("button")
  /\ Pressable
  /\ currentState = "READY_SCREEN"
  /\ \E ok \in SessionOutcomes :
       IF ok
       THEN /\ transactionId' = NewSessionId
            /\ sessions' = sessions + 1
            /\ currentState' = "DISPLAY_QR"
       ELSE /\ transactionId' = << "OFFLINE", now >>
            /\ sessions' = sessions
            /\ currentState' = "READY_TO_SCAN"
  /\ stateStartTime' = now
  /\ lastPress' = now
  /\ presses' = presses + 1
  /\ lastEvent' = "press"
  /\ kpc' = "update"
  /\ UNCHANGED << now, sessionStartTime, lastPaymentCheck, qrDisplayed, qrDrawn >>
  /\ ScanIdle

\* lines 342-347, 365-369: a press in READY_TO_SCAN
ButtonReadyToScan ==
  /\ InLoop("button")
  /\ Pressable
  /\ scans < ScanLimit
  /\ currentState = "READY_TO_SCAN"
  /\ currentState' = "SCANNING"
  /\ stateStartTime' = now
  /\ lastPress' = now
  /\ presses' = presses + 1
  /\ lastEvent' = "press"
  /\ kpc' = "update"
  /\ UNCHANGED << now, transactionId, sessionStartTime, lastPaymentCheck,
                  qrDisplayed, qrDrawn, sessions >>
  /\ ScanIdle

\* lines 342-347, 371-373: a press in any other state
ButtonIgnored ==
  /\ InLoop("button")
  /\ Pressable
  /\ currentState \notin {"READY_SCREEN", "READY_TO_SCAN"}
  /\ lastPress' = now
  /\ presses' = presses + 1
  /\ lastEvent' = "press"
  /\ kpc' = "update"
  /\ UNCHANGED << now, currentState, transactionId, sessionStartTime,
                  stateStartTime, lastPaymentCheck, qrDisplayed, qrDrawn, sessions >>
  /\ ScanIdle

\* lines 340-342, 375-377: the button is not pressed
ButtonReleased ==
  /\ InLoop("button")
  /\ lastEvent' = "none"
  /\ kpc' = "update"
  /\ UNCHANGED << now, currentState, transactionId, sessionStartTime,
                  stateStartTime, lastPaymentCheck, lastPress, qrDisplayed,
                  qrDrawn, sessions, presses >>
  /\ ScanIdle

(***************************************************************************)
(* updateKioskState, lines 250-320                                         *)
(***************************************************************************)
\* lines 252-254 and 289-291: READY_SCREEN and READY_TO_SCAN only draw
UpdateReady ==
  /\ InLoop("update")
  /\ currentState \in {"READY_SCREEN", "READY_TO_SCAN"}
  /\ lastEvent' = "none"
  /\ kpc' = "timeout"
  /\ UNCHANGED << now, currentState, transactionId, sessionStartTime,
                  stateStartTime, lastPaymentCheck, lastPress, qrDisplayed,
                  qrDrawn, sessions, presses >>
  /\ ScanIdle

\* lines 496-499, 511-512: the QR code is drawn unless displayed is set
displayQRCode(displayed, drawn, tid) ==
  IF displayed THEN [displayed |-> TRUE, drawn |-> drawn]
  ELSE [displayed |-> TRUE, drawn |-> tid]

\* lines 256-266
UpdateDisplayQR ==
  /\ InLoop("update")
  /\ currentState = "DISPLAY_QR"
  /\ LET d == displayQRCode(qrDisplayed, qrDrawn, transactionId)
     IN /\ qrDisplayed' = d.displayed
        /\ qrDrawn' = d.drawn
  /\ IF now - stateStartTime > QR_SCAN_MS
     THEN /\ currentState' = "WAITING_PAYMENT"
          /\ lastPaymentCheck' = now
          /\ stateStartTime' = now
     ELSE UNCHANGED << currentState, lastPaymentCheck, stateStartTime >>
  /\ lastEvent' = "none"
  /\ kpc' = "timeout"
  /\ UNCHANGED << now, transactionId, sessionStartTime, lastPress, sessions, presses >>
  /\ ScanIdle

\* lines 274-287
UpdateWaitingPayment ==
  /\ InLoop("update")
  /\ currentState = "WAITING_PAYMENT"
  /\ IF now - lastPaymentCheck > PAYMENT_POLL_INTERVAL
     THEN /\ lastPaymentCheck' = now
          /\ \E paid \in PaidAnswers :
               /\ lastEvent' = (IF paid THEN "paid" ELSE "unpaid")
               /\ IF checkPaymentStatus(transactionId, paid)
                  THEN /\ currentState' = "SCANNING"
                       /\ sessionStartTime' = now
                       /\ stateStartTime' = now
                  ELSE UNCHANGED << currentState, sessionStartTime, stateStartTime >>
     ELSE /\ lastEvent' = "none"
          /\ UNCHANGED << lastPaymentCheck, currentState, sessionStartTime,
                          stateStartTime >>
  /\ kpc' = "timeout"
  /\ UNCHANGED << now, transactionId, lastPress, qrDisplayed, qrDrawn, sessions,
                  presses >>
  /\ ScanIdle

\* lines 296-298: performDiagnosticScan has returned
ScanReturned ==
  /\ InLoop("update")
  /\ currentState = "SCANNING"
  /\ pc = "done"
  /\ currentState' = "DISPLAY_RESULTS"
  /\ stateStartTime' = now
  /\ lastEvent' = "none"
  /\ kpc' = "timeout"
  /\ UNCHANGED << now, transactionId, sessionStartTime, lastPaymentCheck,
                  lastPress, qrDisplayed, qrDrawn, sessions, presses >>
  /\ ScanIdle

\* line 305
DisplayTimeout ==
  IF ~vehicleDetected /\ Len(detectedCodes) = 0 THEN RESULTS_LONG_MS ELSE RESULTS_SHORT_MS

\* lines 1229-1258, called at time t: the session data and the results are
\* cleared and the next session is created
KioskReset(t) ==
  /\ Cleared
  /\ env' \in KioskEnvs
  /\ sessionStartTime' = 0
  /\ \E ok \in SessionOutcomes :
       IF ok
       THEN /\ transactionId' = NewSessionId
            /\ sessions' = sessions + 1
            /\ currentState' = "DISPLAY_QR"
       ELSE /\ transactionId' = << >>
            /\ sessions' = sessions
            /\ currentState' = "READY_SCREEN"
  /\ stateStartTime' = t
  /\ UNCHANGED << mode, busLog, replayPos, firstReport >>

\* lines 300-311, the results stay on the screen
UpdateDisplayResults ==
  /\ InLoop("update")
  /\ currentState = "DISPLAY_RESULTS"
  /\ ~(now - stateStartTime > DisplayTimeout)
  /\ lastEvent' = "none"
  /\ kpc' = "timeout"
  /\ UNCHANGED << now, currentState, transactionId, sessionStartTime,
                  stateStartTime, lastPaymentCheck, lastPress, qrDisplayed,
                  qrDrawn, sessions, presses >>
  /\ ScanIdle

\* lines 300-311, the results have been shown long enough
ResultsTimeout ==
  /\ InLoop("update")
  /\ currentState = "DISPLAY_RESULTS"
  /\ now - stateStartTime > DisplayTimeout
  /\ KioskReset(now)
  /\ lastEvent' = (IF vehicleDetected /\ Len(activeECUs) > 0 THEN "cleared" ELSE "none")
  /\ kpc' = "timeout"
  /\ UNCHANGED << now, lastPaymentCheck, lastPress, qrDisplayed, qrDrawn, presses >>

(***************************************************************************)
(* handleSessionTimeout (lines 322-333) and the delay of loop() (line 188) *)
(***************************************************************************)
TimeoutDue(t) ==
  /\ currentState \in {"WAITING_PAYMENT", "READY_TO_SCAN", "SCANNING"}
  /\ sessionStartTime > 0
  /\ t - sessionStartTime > SESSION_TIMEOUT_MS

\* lines 324-331, 717-730 and 188
SessionTimeout ==
  /\ InLoop("timeout")
  /\ TimeoutDue(now)
  /\ KioskReset(now + ERROR_DELAY_MS)
  /\ now' = now + ERROR_DELAY_MS + LOOP_DELAY_MS
  /\ lastEvent' = "none"
  /\ kpc' = "button"
  /\ UNCHANGED << lastPaymentCheck, lastPress, qrDisplayed, qrDrawn, presses >>

\* the next pass of loop() in which updateKioskState finds something to do
NextPass ==
  CASE currentState = "DISPLAY_QR" -> FirstAfter(stateStartTime, QR_SCAN_MS)
    [] currentState = "WAITING_PAYMENT" -> FirstAfter(lastPaymentCheck, PAYMENT_POLL_INTERVAL)
    [] currentState = "DISPLAY_RESULTS" -> FirstAfter(stateStartTime, DisplayTimeout)
    [] OTHER -> now + LOOP_DELAY_MS

\* a press may still come in this state
PressAwaited ==
  /\ currentState # "SCANNING"
  /\ presses < MaxPresses
  /\ (now + PressStepMs) - stateStartTime <= PressWithinMs

\* the payment will not come any more: every further poll is answered unpaid
PaymentGivenUp ==
  /\ currentState = "WAITING_PAYMENT"
  /\ now - stateStartTime > PaidWithinMs

\* the pass in which handleSessionTimeout fires, or the end of the wait followed
WaitEnd ==
  IF sessionStartTime > 0
  THEN FirstAfter(sessionStartTime, SESSION_TIMEOUT_MS)
  ELSE FirstAfter(stateStartTime, MaxWaitMs)

\* the polls of lines 277-278 come every PAYMENT_POLL_INTERVAL + LOOP_DELAY_MS:
\* the last one before the pass at time t
LastPollBefore(t) ==
  LET every == PAYMENT_POLL_INTERVAL + LOOP_DELAY_MS
  IN lastPaymentCheck + (every * (((t - LOOP_DELAY_MS) - lastPaymentCheck) \div every))

\* the waits that are followed: for a payment up to MaxWaitMs, for a button
\* up to PressWithinMs
Followed ==
  CASE currentState = "WAITING_PAYMENT" -> now - stateStartTime < MaxWaitMs
    [] currentState \in {"READY_SCREEN", "READY_TO_SCAN"} -> PressAwaited
    [] OTHER -> TRUE

\* lines 324-327 (nothing due) and 188; the passes of loop() in which no button
\* is pressed and every handler returns at once are passed over
LoopDelay ==
  /\ InLoop("timeout")
  /\ ~TimeoutDue(now)
  /\ Followed
  /\ IF PressAwaited
     THEN /\ now' = now + PressStepMs
          /\ UNCHANGED lastPaymentCheck
     ELSE IF PaymentGivenUp
     THEN /\ now' = WaitEnd
          /\ lastPaymentCheck' = LastPollBefore(WaitEnd)
     ELSE /\ now' = NextPass
          /\ UNCHANGED lastPaymentCheck
  /\ lastEvent' = "none"
  /\ kpc' = "button"
  /\ UNCHANGED << currentState, transactionId, sessionStartTime, stateStartTime,
                  lastPress, qrDisplayed, qrDrawn, sessions, presses >>
  /\ ScanIdle

KioskNext ==
  \/ ButtonReadyScreen
  \/ ButtonReadyToScan
  \/ ButtonIgnored
  \/ ButtonReleased
  \/ UpdateReady
  \/ UpdateDisplayQR
  \/ UpdateWaitingPayment
  \/ UpdateDisplayResults
  \/ ResultsTimeout
  \/ SessionTimeout
  \/ LoopDelay
  \/ StartScan
  \/ BaudTry
  \/ BaudRxFrame
  \/ BaudRxSilent
  \/ BaudWindowExpired
  \/ BaudExhausted
  \/ NoVehicle
  \/ BeginSniff
  \/ SniffRxFrame
  \/ SniffRxSilent
  \/ BeginProbe
  \/ ProbeNext
  \/ ProbeRxFrame
  \/ ProbeRxSilent
  \/ ProbeWaitExpired
  \/ ProbeAllDone
  \/ DtcNext
  \/ DtcRxFrame
  \/ DtcRxSilent
  \/ DtcWaitExpired
  \/ ScanComplete
  \/ ScanReturned

KioskSpec == KioskInit /\ [][KioskNext]_vars

(***************************************************************************)
(* Properties                                                              *)
(***************************************************************************)
PhaseOrder == << "baud", "sniff", "probe", "dtc" >>
BaudPcs == {"baud_try", "baud_poll", "baud_ret"}
ProbePcs == {"probe_loop", "probe_wait"}
DtcPcs == {"dtc_loop", "dtc_wait"}

IsProbeTx(e) == e.mode = 1
IsDtcTx(e) == e.mode = 3
ProbeTx == SelectSeq(txLog, IsProbeTx)
DtcTx == SelectSeq(txLog, IsDtcTx)

\* C1: at each phase boundary (1 after baud detection, 2 after the sniff,
\* 3 after ECU discovery) at which the elapsed time exceeds the 45 s deadline,
\* no later phase is started (so DTC collection never starts when the deadline
\* has passed at the end of discovery) and the scan ends as TimedOut.
C1_DeadlineStopsLaterPhases ==
  /\ \A b \in late : Len(phases) <= b
  /\ (late # {} /\ pc = "done") => status = "TimedOut"

\* C2: the phases of a scan run in the order baud detection, sniff, discovery,
\* DTC collection, each at most once, and the thread is always inside the
\* phase started last (no phase starts before the previous one has returned,
\* none runs after a later one has started).
C2_PhasesInOrder ==
  /\ Len(phases) <= Len(PhaseOrder)
  /\ phases = SubSeq(PhaseOrder, 1, Len(phases))
  /\ pc = "idle" => phases = << >>
  /\ pc \in BaudPcs => Len(phases) = 1
  /\ pc = "sniff_poll" => Len(phases) = 2
  /\ pc \in ProbePcs => Len(phases) = 3
  /\ pc \in DtcPcs => Len(phases) = 4

C2_Witness ==
  /\ pc = "done"
  /\ status = "Completed"
  /\ phases = PhaseOrder
  /\ Len(activeECUs) > 0

C4_NoVehicle ==
  /\ (pc \notin {"idle", "baud_try", "baud_poll"} /\ rxUnder.cur < BAUD_FRAMES_NEEDED) =>
       /\ Len(tried) = numRates
       /\ detectedBaudRate = 0
       /\ phases = << "baud" >>
       /\ txLog = << >>
       /\ ~vehicleDetected
       /\ activeECUs = << >>
       /\ detectedCodes = << >>
       /\ pc = "done" => status = "NoVehicleDetected"
  /\ status = "NoVehicleDetected" => rxUnder.cur < BAUD_FRAMES_NEEDED

\* the scan has ended NoVehicleDetected although frames were received
C4_Witness ==
  /\ pc = "done"
  /\ status = "NoVehicleDetected"
  /\ rxUnder.stray

\* C5: a candidate whose reconfiguration failed is never polled (the detector
\* polls only with the driver running at the current candidate's rate), the
\* detector moves on to exactly the next candidate, and the scan ends as
\* NoVehicleDetected only after all 4 candidates were tried.
C5_ReinitFailureSkipsCandidate ==
  /\ pc = "baud_poll" =>
       /\ baudIdx \notin reinitFailed
       /\ ctrl = [st |-> "running", rate |-> baudRates[baudIdx + 1]]
  /\ \A k \in reinitFailed : k < baudIdx
  /\ pc = "baud_try" => Len(tried) = baudIdx
  /\ status = "NoVehicleDetected" => Len(tried) = numRates

\* a candidate after a failed one is detected and the scan completes
C5_Witness ==
  /\ pc = "done"
  /\ status = "Completed"
  /\ reinitFailed # {}
  /\ detectedBaudRate # 0

\* C6: after every reconfigure attempt the driver is either running at the
\* requested rate or not installed at all; it is never installed but stopped.
C6_ReconfigureAtomic ==
  tried # << >> =>
    \/ ctrl = [st |-> "running", rate |-> tried[Len(tried)]]
    \/ ctrl.st = "uninstalled"

\* C7: activeECUs never holds the same response identifier twice.
C7_NoDuplicateECUs ==
  \A i, j \in 1..Len(activeECUs) : i # j => activeECUs[i] # activeECUs[j]

\* C8: whenever an identifier is recorded in activeECUs, it equals the request
\* identifier being probed at that moment plus 8.
C8_RecordedIsProbedPlus8 ==
  [][ Len(activeECUs') = Len(activeECUs) + 1 =>
        activeECUs'[Len(activeECUs')] = OBD2_ADDRESSES[probeIdx + 1] + RESP_OFFSET ]_vars

\* C9: the k-th mode-03 request of a scan carries the identifier of the k-th
\* active ECU minus 8, whatever that identifier is.
C9_DtcRequestIsResponseMinus8 ==
  \A k \in 1..Len(DtcTx) :
    /\ k <= Len(activeECUs)
    /\ DtcTx[k].id = activeECUs[k] - RESP_OFFSET

\* C10: the probes of a scan are the first addresses of the 16-address list,
\* one transmit per address, in list order; while the thread waits for an
\* answer, no qualifying frame (identifier = request + 8, or in 0x7E8..0x7EF)
\* has been received for this address, and a wait whose probe was sent ends
\* only with a qualifying frame, which is recorded, or after its 800 ms.
C10_ProbeOncePerAddress ==
  LET n == Len(ProbeTx)
      qualifying(id, req) == id = req + 8 \/ id \in 2024..2031
  IN /\ n <= NUM_ECUS
     /\ \A k \in 1..n : ProbeTx[k].id = OBD2_ADDRESSES[k]
     /\ pc = "probe_wait" =>
          /\ n = probeIdx + 1
          /\ response = 0 \/ ~qualifying(response, OBD2_ADDRESSES[probeIdx + 1])
     /\ pc = "probe_loop" =>
          /\ n = probeIdx
          /\ (n > 0 /\ ProbeTx[n].ok) =>
               \/ /\ response # 0
                  /\ qualifying(response, OBD2_ADDRESSES[n])
                  /\ Len(activeECUs) > 0
                  /\ activeECUs[Len(activeECUs)] = response
               \/ now - ecuStart >= ECU_WAIT_MS + PROBE_PAUSE_MS

\* a non-qualifying frame has been received and the wait goes on, after an
\* earlier address was answered
C10_Witness ==
  /\ pc = "probe_wait"
  /\ response # 0
  /\ Len(activeECUs) = 1
  /\ probeIdx > 0

\* discovery has returned through its sub-deadline test: fewer than 16
\* addresses were probed when scanAllDTCs was called
SubDeadlineHit == Len(phases) = 4 /\ probeIdx < NUM_ECUS

\* the part of C11 that does not depend on the entries being distinct: after a
\* return through the sub-deadline at index probeIdx, exactly the addresses
\* before it were probed, there is at most one entry per probed address, and
\* the scan goes on to collect DTCs from these entries in order
SubDeadlineStopsProbing ==
  SubDeadlineHit =>
    /\ probeIdx > 0
    /\ Len(ProbeTx) = probeIdx
    /\ \A k \in 1..Len(ProbeTx) : ProbeTx[k].id = OBD2_ADDRESSES[k]
    /\ Len(activeECUs) <= probeIdx
    /\ Len(DtcTx) <= Len(activeECUs)
    /\ pc = "done" => status = "Completed" /\ dtcIdx = Len(activeECUs) + 1

\* C11: when the 15 s sub-deadline is found exceeded after address index k,
\* no address beyond k is probed, the phase returns, activeECUs holds the
\* responders recorded for addresses 0..k, each at most once, and the scan
\* continues with that partial set.
C11_SubDeadlinePartialSet ==
  /\ SubDeadlineStopsProbing
  /\ SubDeadlineHit =>
       \A i, j \in 1..Len(activeECUs) : i # j => activeECUs[i] # activeECUs[j]

\* C12: in DTC collection only a frame carrying the identifier of the ECU being
\* collected is decoded, and every code it adds is owned by that ECU; a frame
\* with another identifier leaves the wait, the position and the code list as
\* they are; a request that cannot be sent, or a wait of 1 s without such a
\* frame, adds no code, leaves the scan's status alone and moves on to the
\* next active ECU.
C12_DtcWait ==
  [][ LET ecuId == activeECUs[dtcIdx]
          received == env'.rx = env.rx + 1
      IN /\ (pc \in DtcPcs /\ detectedCodes' # detectedCodes) =>
              /\ pc = "dtc_wait"
              /\ received
              /\ response' = ecuId
              /\ now - ecuStart < DTC_WAIT_MS
              /\ Len(detectedCodes') > Len(detectedCodes)
              /\ SubSeq(detectedCodes', 1, Len(detectedCodes)) = detectedCodes
              /\ \A k \in (Len(detectedCodes) + 1)..Len(detectedCodes') :
                   detectedCodes'[k].ecuId = ecuId
         /\ (pc = "dtc_wait" /\ received /\ response' # ecuId) =>
              /\ pc' = "dtc_wait"
              /\ dtcIdx' = dtcIdx
              /\ ecuStart' = ecuStart
              /\ detectedCodes' = detectedCodes
         /\ (pc = "dtc_loop" /\ Len(txLog') > Len(txLog) /\ ~txLog'[Len(txLog')].ok) =>
              /\ detectedCodes' = detectedCodes
              /\ dtcIdx' = dtcIdx + 1
              /\ pc' = "dtc_loop"
              /\ status' = status
         /\ (pc = "dtc_wait" /\ ~(now - ecuStart < DTC_WAIT_MS)) =>
              /\ detectedCodes' = detectedCodes
              /\ dtcIdx' = dtcIdx + 1
              /\ pc' = "dtc_loop"
              /\ status' = status
         /\ (pc \in DtcPcs /\ dtcIdx' # dtcIdx) =>
              /\ dtcIdx' = dtcIdx + 1
              /\ activeECUs' = activeECUs
    ]_vars

\* a frame with another identifier has been received during the wait for an
\* active ECU's answer, and the wait goes on
C12_Witness ==
  /\ pc = "dtc_wait"
  /\ response # 0
  /\ response # activeECUs[dtcIdx]
  /\ now - ecuStart < DTC_WAIT_MS

(***************************************************************************)
(* Properties of the decoder (DecSpec)                                     *)
(***************************************************************************)
HexUpper ==
  << "0", "1", "2", "3", "4", "5", "6", "7", "8", "9", "A", "B", "C", "D", "E", "F" >>

\* the number a string of upper-case hexadecimal digits denotes
RECURSIVE HexValue(_)
HexValue(s) ==
  IF s = << >> THEN 0
  ELSE 16 * HexValue(SubSeq(s, 1, Len(s) - 1))
         + (CHOOSE k \in 0..15 : HexUpper[k + 1] = s[Len(s)])

\* category by the top two bits of b1, value from the low 14 bits of the pair
BitsCategory(b1) == << "P", "C", "B", "U" >>[(b1 \div 64) + 1]
BitsValue(b1, b2) == ((b1 % 64) * 256) + b2

\* the category letter followed by the value as 4 upper-case hexadecimal
\* digits, padded with zeros on the left
LeftPadded(b1, b2) ==
  << BitsCategory(b1) >> \o
    [k \in 1..4 |-> HexUpper[((BitsValue(b1, b2) \div (16 ^ (4 - k))) % 16) + 1]]

\* the one pair of a 4-byte payload has been decoded
PairDecoded ==
  /\ pc = "dtc_decoded"
  /\ Len(rxData) = 4
  /\ << rxData[3], rxData[4] >> # << 0, 0 >>

\* C13: every byte pair other than (0, 0) yields exactly one code; its first
\* character is P, C, B or U by the top two bits of b1, and the digits after
\* it denote ((b1 & 0x3F) << 8) | b2, a value in 0..0x3FFF.
C13_CategoryAndValue ==
  PairDecoded =>
    /\ Len(detectedCodes) = 1
    /\ LET code == detectedCodes[1].code
       IN /\ Len(code) >= 2
          /\ code[1] = BitsCategory(rxData[3])
          /\ \A k \in 2..Len(code) : \E h \in 1..16 : HexUpper[h] = code[k]
          /\ HexValue(SubSeq(code, 2, Len(code))) = BitsValue(rxData[3], rxData[4])
    /\ BitsValue(rxData[3], rxData[4]) \in 0..16383

\* (0x43, 0x10) has been decoded to category C, value 0x310
C13_Witness ==
  /\ pc = "dtc_decoded"
  /\ rxData = << 4, 67, 67, 16 >>
  /\ Len(detectedCodes) = 1
  /\ detectedCodes[1].code[1] = "C"
  /\ HexValue(SubSeq(detectedCodes[1].code, 2, Len(detectedCodes[1].code))) = 784

\* C14: a payload of length <= 2 adds no code; a pair (0, 0) adds no code; the
\* pairs read are those at offsets 2, 4, 6, ... lying wholly inside the
\* payload, so there are at most floor((L - 2) / 2) codes, one per non-zero
\* pair in payload order, and an unpaired trailing byte is ignored.
C14_PairsRead ==
  pc = "dtc_decoded" =>
    LET L == Len(rxData)
        offsets == [j \in 1..((L - 2) \div 2) |-> 2 * j]
        NonZero(o) == ~(rxData[o + 1] = 0 /\ rxData[o + 2] = 0)
        read == SelectSeq(offsets, NonZero)
    IN /\ L <= 2 => detectedCodes = << >>
       /\ L >= 2 => Len(detectedCodes) <= (L - 2) \div 2
       /\ Len(detectedCodes) = Len(read)
       /\ \A j \in 1..Len(read) :
            /\ detectedCodes[j].code[1] = BitsCategory(rxData[read[j] + 1])
            /\ HexValue(SubSeq(detectedCodes[j].code, 2, Len(detectedCodes[j].code)))
                 = BitsValue(rxData[read[j] + 1], rxData[read[j] + 2])

\* a 7-byte payload whose first pair is (0, 0), whose second pair is not, and
\* whose last byte has no partner, has yielded one code
C14_Witness ==
  /\ pc = "dtc_decoded"
  /\ Len(rxData) = 7
  /\ rxData[3] = 0 /\ rxData[4] = 0
  /\ rxData[5] # 0
  /\ rxData[7] # 0
  /\ Len(detectedCodes) = 1

\* C15 as stated: the padding does not perform left-padding, i.e. for some
\* byte pair other than (0, 0) the code differs from the category letter
\* followed by the value as 4 upper-case hexadecimal digits padded on the left.
C15_PaddingIsNotLeftPadding ==
  pc = "dtc_decoded" =>
    \E b1 \in Bytes, b2 \in Bytes :
      /\ << b1, b2 >> # << 0, 0 >>
      /\ DtcCode(b1, b2) # LeftPadded(b1, b2)

\* C15 amended: for every byte pair other than (0, 0) the code is the category
\* letter followed by the value as 4 upper-case hexadecimal digits padded with
\* zeros on the left; inserting zeros after the first character is
\* left-padding of the digits.
C15_PaddingIsLeftPadding ==
  PairDecoded =>
    /\ Len(detectedCodes) = 1
    /\ detectedCodes[1].code = LeftPadded(rxData[3], rxData[4])

\* a value of one digit has been padded with three zeros
C15_Witness ==
  /\ pc = "dtc_decoded"
  /\ rxData = << 4, 67, 0, 5 >>
  /\ Len(detectedCodes) = 1
  /\ detectedCodes[1].code = << "P", "0", "0", "0", "5" >>

(***************************************************************************)
(* Properties of the scan (Spec), continued                                *)
(***************************************************************************)
\* C16: on a bus that delivers 3 frames under 500000 bit/s, answers the probe
\* of 0x7E0 from 0x7E8 and no other probe, and answers the mode-03 request from
\* 0x7E8 with [05 43 01 23 00 00 00 00], the scan ends Completed with
\* vehicleDetected true, activeECUs = <<0x7E8>> and one code, "P0123", owned
\* by 0x7E8.
C16_EndToEnd ==
  (pc = "done" /\ script) =>
    /\ status = "Completed"
    /\ detectedBaudRate = 500000
    /\ vehicleDetected
    /\ activeECUs = << 2024 >>
    /\ Len(detectedCodes) = 1
    /\ detectedCodes[1].code = << "P", "0", "1", "2", "3" >>
    /\ detectedCodes[1].ecuId = 2024

\* the example scan has ended, and its requests were the 16 probes and one
\* mode-03 request to 0x7E0
C16_Witness ==
  /\ pc = "done"
  /\ script
  /\ Len(txLog) = NUM_ECUS + 1
  /\ txLog[Len(txLog)] = [id |-> 2016, mode |-> 3, ok |-> TRUE]
  /\ Len(detectedCodes) = 1

Milestones == {0, 25, 50, 75, 100}

C18_ProgressMilestones ==
  /\ \A i \in 1..Len(progress) : progress[i] \in Milestones
  /\ (pc = "done" /\ status = "Completed") => progress = <<0, 25, 50, 75, 100>>

\* ---------------------------------------------------------------------------
\* C19: in the report of a scan that ended TimedOut the vehicle-detected flag
\* is true whenever baud detection returned a candidate, also when the
\* deadline was found exceeded at the first boundary, and false only when
\* detection returned no candidate.
C19_TimedOutKeepsDetected ==
  (pc = "done" /\ status = "TimedOut") =>
    (vehicleDetected <=> ~NoActivity(detectedBaudRate))

\* ---------------------------------------------------------------------------
\* C20: every code in the code list has its pending flag false and is owned
\* by an ECU id that is in the list of active ECUs of the same scan.
C20_CodesOwnedByActiveECU ==
  \A i \in 1..Len(detectedCodes) :
    /\ ~detectedCodes[i].isPending
    /\ \E k \in 1..Len(activeECUs) : activeECUs[k] = detectedCodes[i].ecuId

C20_Witness ==
  /\ pc = "done"
  /\ Len(activeECUs) >= 2
  /\ \E i \in 1..Len(detectedCodes) : detectedCodes[i].ecuId = activeECUs[2]

\* ---------------------------------------------------------------------------
\* C21: the baud detection phase never lasts longer than 4 x 2 s: the polling
\* of a candidate ends no later than BAUD_DETECT_TIMEOUT_MS after the
\* candidate's window started, and the time spent polling over all candidates
\* is at most numRates * BAUD_DETECT_TIMEOUT_MS.
\* (The calls before the detector returns take no time except the display
\* update of line 760, whose stall is counted in env.stalls.)
DetectionTime == (now - scanStartTime) - (env.stalls * StallMs)

C21_DetectionWithinWindows ==
  /\ pc = "baud_poll" => now - startTime <= BAUD_DETECT_TIMEOUT_MS
  /\ pc \in BaudPcs => DetectionTime <= numRates * BAUD_DETECT_TIMEOUT_MS

\* ---------------------------------------------------------------------------
\* C22: the traffic sniff runs only after a successful baud detection and
\* changes nothing that later phases read: no step of the sniff, whatever
\* frame it receives, changes the active-ECU list, the code list, the
\* vehicle-detected flag or the driver; discovery therefore starts with empty
\* lists after every sniff and probes the addresses of the list in list order
\* from the first one.
C22_SniffIsObservational ==
  /\ [](pc = "sniff_poll" => (~NoActivity(detectedBaudRate) /\ vehicleDetected))
  /\ [][ pc = "sniff_poll" =>
           /\ activeECUs' = activeECUs
           /\ detectedCodes' = detectedCodes
           /\ vehicleDetected' = vehicleDetected
           /\ ctrl' = ctrl
           /\ detectedBaudRate' = detectedBaudRate
           /\ txLog' = txLog ]_vars
  /\ []((pc = "probe_loop" /\ probeIdx = 0) =>
           (activeECUs = << >> /\ detectedCodes = << >> /\ ProbeTx = << >>))
  /\ [](Len(phases) >= 3 =>
           \A k \in 1..Len(ProbeTx) : ProbeTx[k].id = OBD2_ADDRESSES[k])

C22_Witness ==
  /\ pc = "probe_loop"
  /\ frameCount >= 2
  /\ Len(ProbeTx) >= 1
  /\ activeECUs = << >>

\* ---------------------------------------------------------------------------
\* C23: once baud detection has returned a candidate, the controller is
\* running at exactly that bit rate and stays so, with no further
\* reconfiguration, until the scan returns; every frame of the sniff, the
\* discovery and the DTC phase is therefore exchanged at the detected rate,
\* and no receive or send of a scan happens while the controller is stopped
\* (the receives of the detection phase happen with the controller running at
\* the candidate being tried).
AfterDetection ==
  \/ pc \in ({"sniff_poll"} \cup ProbePcs) \cup DtcPcs
  \/ (pc \in {"baud_ret", "done"} /\ ~NoActivity(detectedBaudRate))

C23_RunningAtDetectedRate ==
  /\ [](AfterDetection => ctrl = [st |-> "running", rate |-> detectedBaudRate])
  /\ [](pc = "baud_poll" => ctrl = [st |-> "running", rate |-> baudRates[baudIdx + 1]])
  /\ [][ (AfterDetection /\ pc # "done") => (ctrl' = ctrl /\ tried' = tried) ]_vars

C23_Witness ==
  /\ pc = "done"
  /\ status = "Completed"
  /\ detectedBaudRate = 250000
  /\ Len(ProbeTx) = NUM_ECUS
  /\ reinitFailed # {}

\* ---------------------------------------------------------------------------
Outcomes == {"NoVehicleDetected", "TimedOut", "Completed"}

\* What is left of a scan, in the order of the code's nesting: the phase, the
\* iterations of the phase's loop, the time left in the window of the polling
\* loop, and the frames that may still arrive while the clock reads the same.
Stage ==
  CASE pc \in {"baud_try", "baud_poll"} -> 5
    [] pc = "baud_ret" -> 4
    [] pc = "sniff_poll" -> 3
    [] pc \in ProbePcs -> 2
    [] pc \in DtcPcs -> 1
    [] OTHER -> 0

Iterations ==
  CASE pc \in {"baud_try", "baud_poll"} ->
         (2 * (numRates - baudIdx)) + (IF pc = "baud_try" THEN 1 ELSE 0)
    [] pc \in ProbePcs ->
         (2 * (NUM_ECUS - probeIdx)) + (IF pc = "probe_loop" THEN 1 ELSE 0)
    [] pc \in DtcPcs ->
         (2 * ((Len(activeECUs) + 1) - dtcIdx)) + (IF pc = "dtc_loop" THEN 1 ELSE 0)
    [] OTHER -> 0

Left(start, win) == IF now - start < win THEN win - (now - start) ELSE 0

WindowLeft ==
  CASE pc = "baud_poll" -> Left(startTime, BAUD_DETECT_TIMEOUT_MS)
    [] pc = "sniff_poll" -> Left(startTime, TRAFFIC_LISTEN_TIMEOUT_MS)
    [] pc = "probe_wait" -> Left(ecuStart, ECU_WAIT_MS)
    [] pc = "dtc_wait" -> Left(ecuStart, DTC_WAIT_MS)
    [] OTHER -> 0

FramesLeft ==
  CASE pc = "baud_poll" -> BAUD_FRAMES_NEEDED - frameCount
    [] pc \in {"sniff_poll", "probe_wait", "dtc_wait"} -> MaxRxFrames - env.rx
    [] OTHER -> 0

Rank == << Stage, Iterations, WindowLeft, FramesLeft >>

LexLess(x, y) ==
  \E k \in 1..Len(x) : x[k] < y[k] /\ \A j \in 1..(k - 1) : x[j] = y[j]

Running == pc \notin {"idle", "done"}

\* C24: every scan terminates, provided the clock advances and every
\* transport call returns within its timeout: while a scan runs some step of
\* it can be taken, and every step of it leaves less to do (Rank decreases in
\* the lexicographic order on naturals), so the scan reaches its return; the
\* discovery loop makes at most NUM_ECUS iterations and the DTC loop one per
\* entry of the active-ECU list; a scan that has returned ended in exactly
\* one of NoVehicleDetected, TimedOut, Completed.
C24_ScanTerminates ==
  /\ [](\A k \in 1..Len(Rank) : Rank[k] \in Nat)
  /\ [][ Running => LexLess(Rank', Rank) ]_vars
  /\ [](Running => ENABLED <<Next>>_vars)
  /\ [](probeIdx <= NUM_ECUS /\ Len(ProbeTx) <= NUM_ECUS)
  /\ [](pc \in DtcPcs => (dtcIdx <= Len(activeECUs) + 1 /\ Len(DtcTx) <= Len(activeECUs)))
  /\ [](pc = "done" => status \in Outcomes)
  /\ [](Running => status = "running")

C24_Witness ==
  /\ pc = "done"
  /\ status = "Completed"
  /\ Len(ProbeTx) = NUM_ECUS
  /\ Len(DtcTx) = 2
  /\ env.idle > 0

\* ---------------------------------------------------------------------------
\* C25: on every path through a scan the percent values handed to the
\* progress sink start with 0, never decrease and end with 100; the 100 is
\* the last report of the scan, whether it ends NoVehicleDetected, TimedOut
\* or Completed, and no report before the last one is 100.
C25_ProgressMonotone ==
  LET n == Len(progress)
  IN /\ Running => n > 0
     /\ n > 0 => progress[1] = 0
     /\ \A i \in 1..(n - 1) : progress[i] <= progress[i + 1] /\ progress[i] < 100
     /\ Running => progress[n] < 100
     /\ pc = "done" => (status \in Outcomes /\ progress[n] = 100)

C25_Witness ==
  /\ pc = "done"
  /\ status = "Completed"
  /\ \E i \in 1..Len(progress) : progress[i] = ProbeProgress(12)
  /\ Len(progress) = 9

\* ---------------------------------------------------------------------------
\* C26: the kiosk state becomes SCANNING only from WAITING_PAYMENT in the
\* step in which the server answered the payment check for the current
\* (non-empty, unchanged) transaction id with paid, or from READY_TO_SCAN on
\* a button press; READY_TO_SCAN is entered only from READY_SCREEN by a press
\* whose session creation failed (offline id, no session created); and
\* performDiagnosticScan starts in no state other than SCANNING.
C26_ScanOnlyWhenPaidOrPressed ==
  [][ /\ (currentState' = "SCANNING" /\ currentState # "SCANNING") =>
           \/ /\ currentState = "WAITING_PAYMENT"
              /\ lastEvent' = "paid"
              /\ Len(transactionId) # 0
              /\ transactionId' = transactionId
              /\ lastPaymentCheck' = now
           \/ /\ currentState = "READY_TO_SCAN"
              /\ lastEvent' = "press"
      /\ (currentState' = "READY_TO_SCAN" /\ currentState # "READY_TO_SCAN") =>
           /\ currentState = "READY_SCREEN"
           /\ lastEvent' = "press"
           /\ transactionId' = << "OFFLINE", now >>
           /\ sessions' = sessions
      /\ (pc = "idle" /\ pc' # "idle") => currentState = "SCANNING"
      /\ (lastEvent' \in {"none", "unpaid"} /\ currentState # "SCANNING") =>
           currentState' # "SCANNING" ]_vars

C26_Witness ==
  /\ mode = "kiosk"
  /\ currentState = "SCANNING"
  /\ pc = "baud_poll"
  /\ transactionId # << >>
  /\ transactionId[1] = "OFFLINE"
  /\ presses = 2

\* C27: in every session, the ones after a reset included, a kiosk waiting in
\* WAITING_PAYMENT without a confirmed payment has left that state for a new
\* session once SESSION_TIMEOUT_MS has elapsed: it is never found still waiting
\* later than the timeout and one pass of loop() after it began to wait.
C27_WaitingPaymentTimesOut ==
  currentState = "WAITING_PAYMENT" =>
    now - stateStartTime <= SESSION_TIMEOUT_MS + LOOP_DELAY_MS

\* C28: a kiosk that has moved on from DISPLAY_QR to WAITING_PAYMENT has drawn
\* the QR code of the transaction id of its session, in every session.
C28_QRDrawnForSession ==
  currentState = "WAITING_PAYMENT" => qrDrawn = transactionId

WaitingStates == {"READY_SCREEN", "DISPLAY_QR", "WAITING_PAYMENT", "READY_TO_SCAN"}

\* C29: whenever the kiosk is in READY_SCREEN, DISPLAY_QR, WAITING_PAYMENT or
\* READY_TO_SCAN, activeECUs and detectedCodes are empty and vehicleDetected is
\* false.
C29_NoResultsWhileWaiting ==
  currentState \in WaitingStates =>
    /\ activeECUs = <<>>
    /\ detectedCodes = <<>>
    /\ ~vehicleDetected

\* the next session begins when resetToReady has cleared the results of a scan
\* that found a vehicle and an ECU
C29_Witness ==
  /\ mode = "kiosk"
  /\ currentState = "DISPLAY_QR"
  /\ lastEvent = "cleared"
  /\ scans = 1
  /\ sessions = 2

====
